---- MODULE Spec2Model ----
(***************************************************************************)
(* Verification model of AgentWeaver's orchestration core.                 *)
(*                                                                         *)
(*   Spec          the supervisor: agent registry, task queue, assignment  *)
(*                 and completion (src/src/orchestration/supervisor.py)    *)
(*   SpecWF        execute_workflow: the conditional workflow graph as it  *)
(*                 is compiled (src/src/conditional_workflow.py)           *)
(*   SpecRecovery  the same graph entered at agent_failure_recovery with a *)
(*                 simulated worker failure in the state                   *)
(*   SpecGraph     both entries of the graph, with fair node steps         *)
(*   SpecRouter    ConditionalRouter.route called on its own               *)
(*   SpecRegistry  the supervisor called with agent descriptors, ids and   *)
(*                 health queries as its callers write them                *)
(*   SpecP2P       the peer-to-peer manager: sends, broadcasts, answers    *)
(*                 and conversations (src/src/p2p_communication.py)        *)
(*   SpecMailbox   one mailbox with redelivery, marks and reads            *)
(*   SpecInbox     one mailbox with messages of every type and priority    *)
(*   SpecBroadcast the manager with an agent registered as "broadcast"     *)
(*   SpecWorker    one BaseWorkerAgent (src/src/agents/base_agent.py)      *)
(*   SpecPool      the concurrent execution pool and its worker adapter    *)
(*                 (src/src/agents/concurrent_worker_adapter.py)           *)
(***************************************************************************)
EXTENDS Integers, Sequences, FiniteSets, TLC

(***************************************************************************)
(* Bounds and input domains                                                *)
(***************************************************************************)
\* number of assign_task calls in one behaviour; every call gets a task id
\* of its own (uuid4 or a caller-supplied unique id)
MaxTasks == 2

AgentIds == {"w1", "w2"}

Capabilities == {"research", "analysis"}

Priorities == {"low", "urgent"}

\* current_task_id = None
NoTask == 0

\* agent ids / task ids that mark_task_complete may be called with
TaskIds == 1..MaxTasks

(***************************************************************************)
(* Supervisor state                                                        *)
(***************************************************************************)
VARIABLES
  agent_registry,   \* Dict[str, AgentState] in insertion order: a sequence
  task_queue,       \* List[Task]
  next_task_id,     \* the id the next submitted task gets
  result,           \* the last public call and what it returned
  in_flight         \* <<agent id, task id>>: logged as assigned to a worker
                    \* that is still registered, not yet logged as completed

vars == <<agent_registry, task_queue, next_task_id, result, in_flight>>

(***************************************************************************)
(* Conditional workflow state                                              *)
(***************************************************************************)
VARIABLES
  state,            \* the dict threaded through the nodes of one run
  worker_agents,    \* orchestrator.worker_agents: agent id -> instance name
  original_agents,  \* orchestrator._original_agents: ids that were replaced
  failure_history,  \* len(failure_manager.failure_history)
  active,           \* nodes of the current step of the graph, not yet run
  pending,          \* nodes triggered for the next step of the graph
  executed,         \* the nodes run so far in this run, in order
  runs,             \* number of runs started on this orchestrator
  route_result      \* the last call of router.route and what it returned

wf_vars == <<state, worker_agents, original_agents, failure_history, active,
             pending, executed, runs, route_result>>

(***************************************************************************)
(* Peer-to-peer communication state                                        *)
(***************************************************************************)
VARIABLES
  messages,              \* the AgentMessage objects built so far; a message
                         \* is referred to by its index in this sequence
  agent_queues,          \* Dict[str, MessageQueue] in insertion order
  message_history,       \* List[AgentMessage]: references
  conversation_threads,  \* Dict[str, List[str]]: conversation id -> ids
  p2p_result             \* the last call of the manager and its return

p2p_vars == <<messages, agent_queues, message_history, conversation_threads,
              p2p_result>>

(***************************************************************************)
(* One worker agent                                                        *)
(***************************************************************************)
VARIABLES
  agent_state,           \* BaseWorkerAgent.agent_state
  worker_result          \* the last call on the worker and its return

worker_vars == <<agent_state, worker_result>>

(***************************************************************************)
(* The concurrent execution pool                                           *)
(***************************************************************************)
VARIABLES
  pool_context,          \* the context dict given to the pool, shared by
                         \* the calls it submits
  pool_subtasks,         \* per subtask: where its execute_subtask call is
  pool_agents,           \* the worker instances the adapter has created
  thread_local,          \* thread -> its thread_local.agent, 0 if not set
  pool_results           \* the results in the order they completed

pool_vars == <<pool_context, pool_subtasks, pool_agents, thread_local,
               pool_results>>

\* the parts of the model outside the supervisor and the workflow
ext_vars == <<p2p_vars, worker_vars, pool_vars>>

all_vars == <<vars, wf_vars, ext_vars>>

\* P2PCommunicationManager.__init__
P2PManagerInit ==
  /\ messages = <<>>
  /\ agent_queues = <<>>
  /\ message_history = <<>>
  /\ conversation_threads = <<>>
  /\ p2p_result = [op |-> "init", value |-> <<>>]

\* AgentState of a worker: status AVAILABLE, no task, counters at zero
WorkerAgentState(capabilities) ==
  [capabilities |-> capabilities, status |-> "available",
   current_task_id |-> NoTask, tasks_completed |-> 0, tasks_failed |-> 0,
   error_message |-> FALSE, health_check_passed |-> TRUE]

\* no worker is looked at
WorkerIdle ==
  /\ agent_state = WorkerAgentState({})
  /\ worker_result = [op |-> "init"]

\* threads of the ThreadPoolExecutor
Threads == {"t1", "t2"}

\* the subtasks of one execute_subtasks_concurrently call, by task id
Subtasks == {1, 2}

\* a call that no thread of the pool runs
NoThread == "none"

\* a subtask that was not submitted; context is subtask_data["context"]
NoCall ==
  [pc |-> "idle", context |-> {}, thread |-> NoThread, agent |-> 0,
   shared |-> FALSE, execution_context |-> {}, seen |-> {},
   raised |-> FALSE]

\* ConcurrentExecutionPool.__init__ and ConcurrentWorkerAdapter.__init__
PoolInit ==
  /\ pool_context = [given |-> FALSE, entries |-> {}]
  /\ pool_subtasks = [subtask \in Subtasks |-> NoCall]
  /\ pool_agents = <<>>
  /\ thread_local = [thread \in Threads |-> 0]
  /\ pool_results = <<>>

ExtIdle == P2PManagerInit /\ WorkerIdle /\ PoolInit

AgentState(id, caps) ==
  [agent_id |-> id, capabilities |-> caps, status |-> "available",
   current_task_id |-> NoTask, tasks_completed |-> 0]

Task(id, req, prio) ==
  [task_id |-> id, required_capabilities |-> req, priority |-> prio]

\* the last public call: its name, its arguments and the success flag and
\* ids of the dictionary it returned
Result(op, success, agent_id, task_id, req) ==
  [op |-> op, success |-> success, agent_id |-> agent_id,
   task_id |-> task_id, required_capabilities |-> req]

AgentRecords ==
  [agent_id : AgentIds, capabilities : SUBSET Capabilities,
   status : {"available", "busy"}, current_task_id : 0..(MaxTasks + 1),
   tasks_completed : 0..(MaxTasks + 1)]

RegisteredIds(reg) == {reg[i].agent_id : i \in 1..Len(reg)}

\* position of a registered id in the dict's iteration order
IndexOf(reg, id) == CHOOSE i \in 1..Len(reg) : reg[i].agent_id = id

(***************************************************************************)
(* Capability matching and first-match search                              *)
(***************************************************************************)
\* mutant: a worker matches as soon as it shares one capability with the task
agent_has_any_required_capability(agent, required_capabilities) ==
  IF required_capabilities = {}
  THEN TRUE
  ELSE required_capabilities \cap agent.capabilities # {}

agent_has_required_capabilities(agent, required_capabilities) ==
  IF required_capabilities = {}
  THEN TRUE
  ELSE required_capabilities \subseteq agent.capabilities

RECURSIVE FindFrom(_, _, _)
FindFrom(reg, task, i) ==
  IF i > Len(reg) THEN 0
  ELSE IF /\ reg[i].status = "available"
          /\ agent_has_required_capabilities(reg[i], task.required_capabilities)
       THEN i
       ELSE FindFrom(reg, task, i + 1)

RECURSIVE FindLastFrom(_, _, _)
FindLastFrom(reg, task, i) ==
  IF i < 1 THEN 0
  ELSE IF /\ reg[i].status = "available"
          /\ agent_has_required_capabilities(reg[i], task.required_capabilities)
       THEN i
       ELSE FindLastFrom(reg, task, i - 1)

\* mutant: the most recently registered match is returned
find_suitable_agent_last(reg, task) == FindLastFrom(reg, task, Len(reg))

\* index of the agent returned, 0 for None
find_suitable_agent(reg, task) == FindFrom(reg, task, 1)

\* suitable_agent.status = BUSY; suitable_agent.current_task_id = task.task_id
AssignTo(reg, i, task) ==
  [reg EXCEPT ![i].status = "busy", ![i].current_task_id = task.task_id]

\* logger.info("Task {task_id} assigned to agent {agent_id}")
AssignmentRecord(task, agent) == <<agent.agent_id, task.task_id>>

(***************************************************************************)
(* _process_queued_tasks: one FIFO pass, assigned tasks removed            *)
(***************************************************************************)
RECURSIVE ProcessFrom(_, _, _, _, _)
ProcessFrom(reg, queue, i, kept, log) ==
  IF i > Len(queue)
  THEN [registry |-> reg, queue |-> kept, log |-> log]
  ELSE LET task == queue[i]
           idx  == find_suitable_agent(reg, task)
       IN IF idx # 0
          THEN ProcessFrom(AssignTo(reg, idx, task), queue, i + 1, kept,
                           log \cup {AssignmentRecord(task, reg[idx])})
          ELSE ProcessFrom(reg, queue, i + 1, Append(kept, task), log)

\* mutant: completion does not look at the queue
process_queued_tasks_skipped(reg, queue) ==
  [registry |-> reg, queue |-> queue, log |-> {}]

process_queued_tasks(reg, queue) == ProcessFrom(reg, queue, 1, <<>>, {})

(***************************************************************************)
(* AgentState.update_performance(success=True)                             *)
(***************************************************************************)
update_performance(agent) ==
  [agent EXCEPT !.tasks_completed = @ + 1]

\* mutant: the status is reset but the task id is left in place
ReleaseAgentKeepsTask(agent) ==
  update_performance([agent EXCEPT !.status = "available"])

\* agent.status = AVAILABLE; agent.current_task_id = None; update_performance
ReleaseAgent(agent) ==
  update_performance([agent EXCEPT !.status = "available",
                                   !.current_task_id = NoTask])

(***************************************************************************)
(* Public operations                                                       *)
(***************************************************************************)
SupervisorInit ==
  /\ agent_registry = <<>>
  /\ task_queue = <<>>
  /\ next_task_id = 1
  /\ result = Result("init", TRUE, "none", NoTask, {})
  /\ in_flight = {}

\* self.agent_registry[agent.agent_id] = agent
StoreAgent(reg, agent) ==
  IF agent.agent_id \in RegisteredIds(reg)
  THEN [reg EXCEPT ![IndexOf(reg, agent.agent_id)] = agent]
  ELSE Append(reg, agent)

register_agent(id, caps) ==
  /\ agent_registry' = StoreAgent(agent_registry, AgentState(id, caps))
  /\ result' = Result("register_agent", TRUE, id, NoTask, {})
  /\ UNCHANGED <<task_queue, next_task_id, in_flight>>

\* mutant: the registry is cleared
RemoveAllAgents(reg, id) == <<>>

\* del self.agent_registry[agent_id]
RemoveAgent(reg, id) ==
  LET k == IndexOf(reg, id)
  IN SubSeq(reg, 1, k - 1) \o SubSeq(reg, k + 1, Len(reg))

unregister_agent(id) ==
  IF id \in RegisteredIds(agent_registry)
  THEN /\ agent_registry' = RemoveAgent(agent_registry, id)
       /\ in_flight' = {p \in in_flight : p[1] # id}
       /\ result' = Result("unregister_agent", TRUE, id, NoTask, {})
       /\ UNCHANGED <<task_queue, next_task_id>>
  ELSE /\ result' = Result("unregister_agent", FALSE, id, NoTask, {})
       /\ UNCHANGED <<agent_registry, task_queue, next_task_id, in_flight>>

assign_task(req, prio) ==
  /\ next_task_id <= MaxTasks
  /\ LET task == Task(next_task_id, req, prio)
         idx  == find_suitable_agent(agent_registry, task)
     IN IF idx # 0
        THEN /\ agent_registry' = AssignTo(agent_registry, idx, task)
             /\ in_flight' = in_flight \cup
                  {AssignmentRecord(task, agent_registry[idx])}
             /\ result' = Result("assign_task", TRUE,
                                  agent_registry[idx].agent_id,
                                  task.task_id, req)
             /\ UNCHANGED task_queue
        ELSE /\ task_queue' = Append(task_queue, task)
             /\ result' = Result("assign_task", FALSE, "none",
                                  task.task_id, req)
             /\ UNCHANGED <<agent_registry, in_flight>>
  /\ next_task_id' = next_task_id + 1

\* mutant: the task id is not compared
holds_any_task(reg, task_id, agent_id) ==
  /\ agent_id \in RegisteredIds(reg)
  /\ reg[IndexOf(reg, agent_id)].current_task_id # NoTask

\* agent_id in self.agent_registry and agent.current_task_id == task_id
holds_task(reg, task_id, agent_id) ==
  /\ agent_id \in RegisteredIds(reg)
  /\ reg[IndexOf(reg, agent_id)].current_task_id = task_id

mark_task_complete(task_id, agent_id) ==
  IF holds_task(agent_registry, task_id, agent_id)
  THEN LET k     == IndexOf(agent_registry, agent_id)
           freed == [agent_registry EXCEPT ![k] = ReleaseAgent(@)]
           pass  == process_queued_tasks(freed, task_queue)
       IN /\ agent_registry' = pass.registry
          /\ task_queue' = pass.queue
          /\ in_flight' = (in_flight \ {<<agent_id, task_id>>}) \cup pass.log
          /\ result' = Result("mark_task_complete", TRUE, agent_id,
                               task_id, {})
          /\ UNCHANGED next_task_id
  ELSE /\ result' = Result("mark_task_complete", FALSE, agent_id,
                            task_id, {})
       /\ UNCHANGED <<agent_registry, task_queue, next_task_id, in_flight>>

RegisterAgent == \E id \in AgentIds, caps \in SUBSET Capabilities :
                   register_agent(id, caps)

UnregisterAgent == \E id \in AgentIds : unregister_agent(id)

AssignTask == \E req \in SUBSET Capabilities, prio \in Priorities :
                assign_task(req, prio)

MarkTaskComplete == \E t \in TaskIds, a \in AgentIds :
                      mark_task_complete(t, a)

(***************************************************************************)
(* Conditional workflow: data                                              *)
(***************************************************************************)
\* None, for fields that hold strings
None == "None"

\* None or a missing key, for fields that hold numbers
NoNumber == -1

\* ConditionalWorkflowState.max_reroutes and the default of every
\* state.get("max_reroutes", 3)
DefaultMaxReroutes == 3

\* number of execute_workflow calls on one orchestrator
MaxRuns == 2

\* input_data of execute_workflow: "empty" is None or {}, "no_text" a dict
\* without text, the others a text by the words the analyzer looks for
Inputs == {"empty", "no_text", "good", "bad", "plain"}

HasText(input) == input \notin {"empty", "no_text"}

\* state["analysis_confidence"] = 0.85, in hundredths
AnalysisConfidence == 85

\* sentiment score in hundredths set by the content analyzer for a text
SentimentOf(input) ==
  CASE input = "good" -> 75
    [] input = "bad" -> -50
    [] OTHER -> 0

Processors == {"positive_sentiment_processor", "negative_sentiment_processor",
               "neutral_sentiment_processor"}

\* self.worker_agents[f"{sentiment}_processor"]
ProcessorAgent(node) ==
  CASE node = "positive_sentiment_processor" -> "positive_processor"
    [] node = "negative_sentiment_processor" -> "negative_processor"
    [] node = "neutral_sentiment_processor" -> "neutral_processor"

\* _initialize_worker_agents: every id is bound to an instance of its own
initialize_worker_agents ==
  [id \in {"text_analyzer", "api_client", "data_processor",
           "backup_text_analyzer", "backup_api_client",
           "backup_data_processor", "positive_processor",
           "negative_processor", "neutral_processor"} |-> id]

\* _build_agent_registry: capability -> agent ids, in list order
build_agent_registry ==
  [text_analysis |-> <<"text_analyzer", "backup_text_analyzer">>,
   api_interaction |-> <<"api_client", "backup_api_client">>,
   data_processing |-> <<"data_processor", "backup_data_processor",
                         "positive_processor", "negative_processor",
                         "neutral_processor">>]

\* AgentFailureManager._determine_required_capability
determine_required_capability(agent_id) ==
  CASE agent_id = "text_analyzer" -> "text_analysis"
    [] agent_id = "api_client" -> "api_interaction"
    [] agent_id = "data_processor" -> "data_processing"
    [] OTHER -> None

\* step_results key under which a failed step's result is kept
FailedKey(step) ==
  CASE step = "supervisor" -> "supervisor_failed"
    [] step = "content_analyzer" -> "content_analyzer_failed"
    [] step = "conditional_router" -> "conditional_router_failed"
    [] step = "positive_sentiment_processor"
         -> "positive_sentiment_processor_failed"
    [] step = "negative_sentiment_processor"
         -> "negative_sentiment_processor_failed"
    [] step = "neutral_sentiment_processor"
         -> "neutral_sentiment_processor_failed"
    [] step = "agent_failure_recovery" -> "agent_failure_recovery_failed"
    [] OTHER -> "None_failed"

\* the state dict; a key that is missing reads as None / NoNumber / FALSE,
\* which are the defaults of the .get() calls
InitialState(input) ==
  [initial_input |-> input,
   current_step |-> None,
   completed_steps |-> <<>>,
   step_results |-> <<>>,
   status |-> None,
   error_occurred |-> FALSE,
   error_step |-> None,
   failed_agent_id |-> None,
   required_capability |-> None,
   backup_agent_used |-> FALSE,
   reroute_count |-> 0,
   max_reroutes |-> NoNumber,
   sentiment_score |-> NoNumber,
   content_type |-> None,
   analysis_confidence |-> NoNumber,
   routing_decision |-> None,
   routing_history |-> <<>>,
   final_result |-> None]

\* state.get("max_reroutes", 3)
MaxReroutesOf(st) ==
  IF st.max_reroutes = NoNumber THEN DefaultMaxReroutes ELSE st.max_reroutes

\* step_results is a dict: a sequence of <<key, value>> without repeated keys
ResultKeys(results) == {results[i][1] : i \in 1..Len(results)}

ResultOf(results, key) ==
  LET i == CHOOSE j \in 1..Len(results) : results[j][1] = key
  IN results[i][2]

RECURSIVE DropKey(_, _)
DropKey(results, key) ==
  IF results = <<>> THEN <<>>
  ELSE IF Head(results)[1] = key
       THEN DropKey(Tail(results), key)
       ELSE <<Head(results)>> \o DropKey(Tail(results), key)

\* step_results[key] = value
PutResult(results, key, value) ==
  IF key \in ResultKeys(results)
  THEN [i \in 1..Len(results) |->
          IF results[i][1] = key THEN <<key, value>> ELSE results[i]]
  ELSE Append(results, <<key, value>>)

\* list.remove(x): the first occurrence is removed
RECURSIVE RemoveFirst(_, _)
RemoveFirst(seq, x) ==
  IF seq = <<>> THEN <<>>
  ELSE IF Head(seq) = x THEN Tail(seq)
       ELSE <<Head(seq)>> \o RemoveFirst(Tail(seq), x)

Contains(seq, x) == \E i \in 1..Len(seq) : seq[i] = x

(***************************************************************************)
(* ConditionalRouter                                                       *)
(***************************************************************************)
\* mutant: a score on the positive threshold is routed as neutral
route_by_sentiment_strict(st) ==
  LET sentiment_score ==
        IF st.sentiment_score = NoNumber THEN 0 ELSE st.sentiment_score
  IN IF sentiment_score > 70 THEN "positive_sentiment_processor"
     ELSE IF sentiment_score <= -30 THEN "negative_sentiment_processor"
     ELSE "neutral_sentiment_processor"

\* scores are in hundredths: 70 is 0.7 and -30 is -0.3
route_by_sentiment(st) ==
  LET sentiment_score ==
        IF st.sentiment_score = NoNumber THEN 0 ELSE st.sentiment_score
  IN IF sentiment_score >= 70 THEN "positive_sentiment_processor"
     ELSE IF sentiment_score <= -30 THEN "negative_sentiment_processor"
     ELSE "neutral_sentiment_processor"

route_by_content_type(st) ==
  CASE st.content_type = "technical" -> "technical_analysis_agent"
    [] st.content_type = "marketing" -> "marketing_analysis_agent"
    [] st.content_type = "customer_feedback" -> "feedback_analysis_agent"
    [] OTHER -> "general_analysis_agent"

\* confidence is in hundredths: 90 is 0.9 and 60 is 0.6
route_by_confidence(st) ==
  LET confidence ==
        IF st.analysis_confidence = NoNumber THEN 0
        ELSE st.analysis_confidence
  IN IF confidence >= 90 THEN "high_confidence_processor"
     ELSE IF confidence >= 60 THEN "medium_confidence_processor"
     ELSE "manual_review_processor"

\* mutant: a reroute is granted when the budget is just spent
route_by_error_status_late(st) ==
  IF st.failed_agent_id # None /\ st.reroute_count <= MaxReroutesOf(st)
  THEN "agent_failure_recovery"
  ELSE "error_handler"

route_by_error_status(st) ==
  IF st.failed_agent_id # None /\ st.reroute_count < MaxReroutesOf(st)
  THEN "agent_failure_recovery"
  ELSE "error_handler"

\* the keys of self.routing_rules
RoutingTypes == {"sentiment_based", "content_type_based", "confidence_based",
                 "error_based"}

\* self.routing_rules.get(routing_type, self._route_by_sentiment)(state)
routing_func(routing_type, st) ==
  CASE routing_type = "content_type_based" -> route_by_content_type(st)
    [] routing_type = "confidence_based" -> route_by_confidence(st)
    [] routing_type = "error_based" -> route_by_error_status(st)
    [] OTHER -> route_by_sentiment(st)

\* an entry of routing_history
routing_entry(routing_type, decision, st) ==
  [routing_type |-> routing_type,
   decision |-> decision,
   state_snapshot |-> [sentiment_score |-> st.sentiment_score,
                       content_type |-> st.content_type,
                       analysis_confidence |-> st.analysis_confidence,
                       error_occurred |-> st.error_occurred]]

\* mutant: a decision already logged is returned again
route_cached(st, routing_type) ==
  IF st.error_occurred
  THEN [decision |-> route_by_error_status(st), state |-> st]
  ELSE LET decision ==
             IF st.routing_history # <<>>
             THEN st.routing_history[Len(st.routing_history)].decision
             ELSE routing_func(routing_type, st)
       IN [decision |-> decision,
           state |-> [st EXCEPT
                        !.routing_history =
                           Append(@, routing_entry(routing_type, decision,
                                                   st)),
                        !.routing_decision = decision]]
\* ConditionalRouter.route(state, routing_type): the decision and the state
\* it leaves
route(st, routing_type) ==
  IF st.error_occurred
  THEN [decision |-> route_by_error_status(st), state |-> st]
  ELSE LET decision == routing_func(routing_type, st)
       IN [decision |-> decision,
           state |-> [st EXCEPT
                        !.routing_history =
                           Append(@, routing_entry(routing_type, decision,
                                                   st)),
                        !.routing_decision = decision]]

RouteResult(routing_type, decision) ==
  [routing_type |-> routing_type, decision |-> decision]

\* no call of the router yet
NoRoute == RouteResult(None, None)

(***************************************************************************)
(* AgentFailureManager                                                     *)
(***************************************************************************)
detect_failure(st, agent_id) ==
  [st EXCEPT !.error_occurred = TRUE,
             !.failed_agent_id = agent_id,
             !.required_capability = determine_required_capability(agent_id)]

\* mutant: the failed worker is not filtered out of the candidates
find_backup_agent_unfiltered(st) ==
  IF st.required_capability = None THEN None
  ELSE build_agent_registry[st.required_capability][1]

find_backup_agent(st) ==
  IF st.required_capability = None THEN None
  ELSE LET available_agents == build_agent_registry[st.required_capability]
           backup_agents == SelectSeq(available_agents,
                                      LAMBDA agent : agent # st.failed_agent_id)
       IN IF backup_agents # <<>> THEN backup_agents[1] ELSE None

(***************************************************************************)
(* Edges of the compiled graph                                             *)
(***************************************************************************)
\* mutant: a failed analysis is handed to the recovery step
route_from_content_analyzer_to_recovery(st) ==
  IF st.error_occurred THEN "agent_failure_recovery" ELSE "conditional_router"

route_from_content_analyzer(st) ==
  IF st.error_occurred THEN "error_handler" ELSE "conditional_router"

route_to_finalizer(st) ==
  IF st.error_occurred THEN "error_handler" ELSE "workflow_finalizer"

\* defined next to the edges but attached to no node of the graph
route_after_error_handler(st) ==
  IF st.failed_agent_id # None /\ st.reroute_count < MaxReroutesOf(st)
  THEN "agent_failure_recovery"
  ELSE "workflow_finalizer"

route_from_recovery(st) ==
  IF st.backup_agent_used /\ ~st.error_occurred
  THEN IF st.error_step = "content_analyzer" THEN "content_analyzer"
       ELSE "conditional_router"
  ELSE "error_handler"

\* mutant: error_handler hands the run back to content_analyzer
StaticEdgesRetryAfterError(node) ==
  CASE node = "supervisor" -> {"content_analyzer"}
    [] node = "error_handler" -> {"content_analyzer"}
    [] node = "agent_failure_recovery" -> {"workflow_finalizer"}
    [] OTHER -> {}

\* graph.add_edge(node, target) for the node
StaticEdges(node) ==
  CASE node = "supervisor" -> {"content_analyzer"}
    [] node = "error_handler" -> {"workflow_finalizer"}
    [] node = "agent_failure_recovery" -> {"workflow_finalizer"}
    [] OTHER -> {}

\* a node has run: it leaves the current step and its targets are triggered
\* for the next step, which starts when the current one is empty
Advance(node, targets) ==
  LET rest == active \ {node}
      next == pending \cup targets
  IN /\ active' = IF rest = {} THEN next ELSE rest
     /\ pending' = IF rest = {} THEN {} ELSE next

\* agent is the instance the node handed its task to, None if it has none
Executed(node, raised, agent) ==
  [step |-> node, raised |-> raised, agent |-> agent,
   backup_agent_used |-> state.backup_agent_used]

(***************************************************************************)
(* Nodes                                                                   *)
(***************************************************************************)
\* _supervisor_node
supervisor_node ==
  /\ "supervisor" \in active
  /\ LET st0 == [state EXCEPT !.current_step = "supervisor",
                              !.completed_steps = <<>>,
                              !.step_results = <<>>,
                              !.status = "running",
                              !.error_occurred = FALSE,
                              !.routing_history = <<>>,
                              !.reroute_count = 0]
         raised == state.initial_input = "empty"
     IN /\ state' =
             IF raised
             THEN [st0 EXCEPT !.error_occurred = TRUE,
                              !.error_step = "supervisor",
                              !.status = "failed"]
             ELSE [st0 EXCEPT !.completed_steps = Append(@, "supervisor"),
                              !.step_results =
                                 PutResult(@, "supervisor", "completed")]
        /\ executed' = Append(executed, Executed("supervisor", raised, None))
  /\ Advance("supervisor", StaticEdges("supervisor"))
  /\ UNCHANGED <<worker_agents, original_agents, failure_history, runs,
               route_result>>

\* the except branch of _content_analyzer_node
ContentAnalyzerFailed(st) ==
  IF ~st.backup_agent_used
  THEN detect_failure(st, "text_analyzer")
  ELSE [st EXCEPT !.error_occurred = TRUE,
                  !.error_step = "content_analyzer",
                  !.status = "failed"]

\* _content_analyzer_node; execute_raises is the outcome of
\* self.worker_agents["text_analyzer"].execute(task, state)
content_analyzer_node(execute_raises) ==
  /\ "content_analyzer" \in active
  /\ LET is_retry == /\ state.backup_agent_used
                     /\ state.error_step = "content_analyzer"
         st0      == [state EXCEPT !.current_step = "content_analyzer"]
         raised   == ~HasText(state.initial_input) \/ execute_raises
         st1      == IF raised
                     THEN ContentAnalyzerFailed(st0)
                     ELSE [st0 EXCEPT
                             !.sentiment_score =
                                SentimentOf(state.initial_input),
                             !.content_type = "general",
                             !.analysis_confidence = AnalysisConfidence,
                             !.completed_steps =
                                Append(@, "content_analyzer"),
                             !.step_results =
                                PutResult(@, "content_analyzer",
                                          IF is_retry THEN "backup"
                                          ELSE "primary")]
     IN /\ state' = st1
        /\ failure_history' =
             IF raised /\ ~state.backup_agent_used
             THEN failure_history + 1 ELSE failure_history
        /\ executed' =
             Append(executed,
                    Executed("content_analyzer", raised,
                             IF HasText(state.initial_input)
                             THEN worker_agents["text_analyzer"] ELSE None))
        /\ Advance("content_analyzer", {route_from_content_analyzer(st1)})
  /\ UNCHANGED <<worker_agents, original_agents, runs,
               route_result>>

\* _conditional_router_node, then the edge dynamic_sentiment_router
conditional_router_node ==
  /\ "conditional_router" \in active
  /\ LET st0 == [state EXCEPT
                   !.current_step = "conditional_router",
                   !.completed_steps = Append(@, "conditional_router"),
                   !.step_results =
                      PutResult(@, "conditional_router", "completed")]
         r   == route(st0, "sentiment_based")
     IN /\ state' = r.state
        /\ route_result' = RouteResult("sentiment_based", r.decision)
        /\ executed' =
             Append(executed, Executed("conditional_router", FALSE, None))
        /\ Advance("conditional_router", {r.decision})
  /\ UNCHANGED <<worker_agents, original_agents, failure_history, runs>>

\* _sentiment_processor_node; execute_raises is the outcome of
\* processor_agent.execute(task, state)
sentiment_processor_node(node, execute_raises) ==
  /\ node \in active
  /\ LET st0 == [state EXCEPT !.current_step = node]
         st1 == IF execute_raises
                THEN [st0 EXCEPT !.error_occurred = TRUE,
                                 !.error_step = node,
                                 !.status = "failed"]
                ELSE [st0 EXCEPT
                        !.final_result = "workflow_summary",
                        !.completed_steps = Append(@, node),
                        !.step_results = PutResult(@, node, "completed")]
     IN /\ state' = st1
        /\ executed' = Append(executed, Executed(node, execute_raises,
                                     worker_agents[ProcessorAgent(node)]))
        /\ Advance(node, {route_to_finalizer(st1)})
  /\ UNCHANGED <<worker_agents, original_agents, failure_history, runs,
               route_result>>

\* mutant: the error handler discards the partial results
error_handled_drops_results(st) ==
  [st EXCEPT !.final_result = "error_summary",
             !.status = "failed",
             !.step_results = <<>>]

\* the state _error_handler_node returns
error_handled(st) ==
  [st EXCEPT !.final_result = "error_summary",
             !.status = "failed"]

\* _error_handler_node
error_handler_node ==
  /\ "error_handler" \in active
  /\ state' = error_handled(state)
  /\ executed' = Append(executed, Executed("error_handler", FALSE, None))
  /\ Advance("error_handler", StaticEdges("error_handler"))
  /\ UNCHANGED <<worker_agents, original_agents, failure_history, runs,
               route_result>>

\* mutant: the finalizer stamps every run completed
final_status_always_completed(status) == "completed"

\* if state.get("status") not in ["failed"]: state["status"] = "completed"
final_status(status) == IF status # "failed" THEN "completed" ELSE status

\* _workflow_finalizer_node
workflow_finalizer_node ==
  /\ "workflow_finalizer" \in active
  /\ state' = [state EXCEPT !.status = final_status(@)]
  /\ executed' = Append(executed, Executed("workflow_finalizer", FALSE, None))
  /\ Advance("workflow_finalizer", {})
  /\ UNCHANGED <<worker_agents, original_agents, failure_history, runs,
               route_result>>

\* mutant: the budget counts as spent one reroute too late
reroute_budget_exceeded(reroute_count, max_reroutes) ==
  reroute_count > max_reroutes

\* if reroute_count >= max_reroutes: raise
reroute_budget_exhausted(reroute_count, max_reroutes) ==
  reroute_count >= max_reroutes

\* the except branch of _agent_failure_recovery_node
RecoveryFailed(st) ==
  [st EXCEPT !.error_occurred = TRUE,
             !.error_step = "agent_failure_recovery",
             !.backup_agent_used = FALSE,
             !.status = "failed"]

\* the state after a backup was found
RecoverySucceeded(st, failed_step) ==
  [st EXCEPT
     !.backup_agent_used = TRUE,
     !.reroute_count = st.reroute_count + 1,
     !.error_occurred = FALSE,
     !.status = "rerouted",
     !.completed_steps =
        Append(IF failed_step # None /\ Contains(@, failed_step)
               THEN RemoveFirst(@, failed_step) ELSE @,
               "agent_failure_recovery"),
     !.step_results =
        PutResult(IF failed_step # None /\ failed_step \in ResultKeys(@)
                  THEN PutResult(DropKey(@, failed_step),
                                 FailedKey(failed_step),
                                 ResultOf(@, failed_step))
                  ELSE @,
                  "agent_failure_recovery", "completed")]

\* _agent_failure_recovery_node with _reassign_agent_for_retry
agent_failure_recovery_node ==
  /\ "agent_failure_recovery" \in active
  /\ LET st0 == [state EXCEPT !.current_step = "agent_failure_recovery"]
         failed_agent_id == state.failed_agent_id
         failed_step == state.error_step
         backup_agent_id == find_backup_agent(st0)
         raised ==
           \/ reroute_budget_exhausted(state.reroute_count,
                                       MaxReroutesOf(state))
           \/ backup_agent_id = None
         st1 == IF raised THEN RecoveryFailed(st0)
                ELSE RecoverySucceeded(st0, failed_step)
     IN /\ state' = st1
        /\ worker_agents' =
             IF raised THEN worker_agents
             ELSE [worker_agents EXCEPT
                     ![failed_agent_id] = worker_agents[backup_agent_id]]
        /\ original_agents' =
             IF raised THEN original_agents
             ELSE original_agents \cup {failed_agent_id}
        /\ executed' =
             Append(executed, Executed("agent_failure_recovery", raised, None))
        /\ Advance("agent_failure_recovery",
                   {route_from_recovery(st1)}
                     \cup StaticEdges("agent_failure_recovery"))
  /\ UNCHANGED <<failure_history, runs,
               route_result>>

(***************************************************************************)
(* execute_workflow                                                        *)
(***************************************************************************)
\* the orchestrator as constructed, no run started
OrchestratorInit ==
  /\ worker_agents = initialize_worker_agents
  /\ original_agents = {}
  /\ failure_history = 0

WorkflowIdle ==
  /\ OrchestratorInit
  /\ state = InitialState("empty")
  /\ active = {}
  /\ pending = {}
  /\ executed = <<>>
  /\ runs = 0
  /\ route_result = NoRoute

\* execute_workflow(input_data): the graph is invoked on a new state dict
execute_workflow(input) ==
  /\ active = {}
  /\ runs < MaxRuns
  /\ runs' = runs + 1
  /\ state' = InitialState(input)
  /\ active' = {"supervisor"}
  /\ pending' = {}
  /\ executed' = <<>>
  /\ UNCHANGED <<worker_agents, original_agents, failure_history,
               route_result>>

\* the nodes that follow the supervisor in a run
RunContentAnalyzer == \E execute_raises \in BOOLEAN :
                        content_analyzer_node(execute_raises)

RunSentimentProcessor == \E node \in Processors, execute_raises \in BOOLEAN :
                           sentiment_processor_node(node, execute_raises)

WfInit == SupervisorInit /\ WorkflowIdle /\ ExtIdle

\* agent_failure_recovery is a node of the graph as well; RecoveryUnreachable
\* below shows that execute_workflow never triggers it
WfNext ==
  \/ (\E input \in Inputs : execute_workflow(input)) /\ UNCHANGED <<vars, ext_vars>>
  \/ supervisor_node /\ UNCHANGED <<vars, ext_vars>>
  \/ RunContentAnalyzer /\ UNCHANGED <<vars, ext_vars>>
  \/ conditional_router_node /\ UNCHANGED <<vars, ext_vars>>
  \/ RunSentimentProcessor /\ UNCHANGED <<vars, ext_vars>>
  \/ error_handler_node /\ UNCHANGED <<vars, ext_vars>>
  \/ workflow_finalizer_node /\ UNCHANGED <<vars, ext_vars>>

SpecWF == WfInit /\ [][WfNext]_all_vars

(***************************************************************************)
(* A simulated worker failure handed to agent_failure_recovery             *)
(***************************************************************************)
SimulatedResults(steps) ==
  [i \in 1..Len(steps) |->
     <<steps[i], IF steps[i] = "content_analyzer" THEN "primary"
                 ELSE "completed">>]

\* the state of a run in which step failed_at raised: the Failure Manager
\* recorded the failure of worker agent_id (None: no worker failure was
\* recorded) and error_step names the step or was left unset
SimulatedFailure(input, steps, agent_id, failed_at, error_step, count, max, backup) ==
  LET st == [InitialState(input) EXCEPT
               !.current_step = failed_at,
               !.completed_steps = steps,
               !.step_results = SimulatedResults(steps),
               !.status = "running",
               !.error_occurred = TRUE,
               !.error_step = error_step,
               !.reroute_count = count,
               !.max_reroutes = max,
               !.backup_agent_used = backup,
               !.sentiment_score =
                  IF Contains(steps, "content_analyzer")
                  THEN SentimentOf(input) ELSE NoNumber,
               !.content_type =
                  IF Contains(steps, "content_analyzer")
                  THEN "general" ELSE None,
               !.analysis_confidence =
                  IF Contains(steps, "content_analyzer")
                  THEN AnalysisConfidence ELSE NoNumber]
  IN IF agent_id = None THEN st ELSE detect_failure(st, agent_id)

\* the worker a step hands its task to, and the steps completed before it
SimulatedFailures ==
  {<<"content_analyzer", "text_analyzer", <<"supervisor">> >>,
   <<"content_analyzer", "text_analyzer",
     <<"supervisor", "content_analyzer">> >>,
   <<"positive_sentiment_processor", "positive_processor",
     <<"supervisor", "content_analyzer", "conditional_router">> >>,
   <<"positive_sentiment_processor", "data_processor",
     <<"supervisor", "content_analyzer", "conditional_router">> >>}

RecInit ==
  /\ SupervisorInit
  /\ ExtIdle
  /\ OrchestratorInit
  /\ \E input \in {"good", "plain"},
        failure \in SimulatedFailures,
        count \in 0..DefaultMaxReroutes,
        max \in {NoNumber, 1},
        backup \in BOOLEAN :
       \E agent_id \in {None, failure[2]}, error_step \in {None, failure[1]} :
         /\ count <= (IF max = NoNumber THEN DefaultMaxReroutes ELSE max)
         /\ state = SimulatedFailure(input, failure[3], agent_id,
                                     failure[1], error_step, count, max,
                                     backup)
  /\ active = {"agent_failure_recovery"}
  /\ pending = {}
  /\ executed = <<>>
  /\ runs = 1
  /\ route_result = NoRoute

RecNext ==
  \/ agent_failure_recovery_node /\ UNCHANGED <<vars, ext_vars>>
  \/ RunContentAnalyzer /\ UNCHANGED <<vars, ext_vars>>
  \/ conditional_router_node /\ UNCHANGED <<vars, ext_vars>>
  \/ RunSentimentProcessor /\ UNCHANGED <<vars, ext_vars>>
  \/ error_handler_node /\ UNCHANGED <<vars, ext_vars>>
  \/ workflow_finalizer_node /\ UNCHANGED <<vars, ext_vars>>

SpecRecovery == RecInit /\ [][RecNext]_all_vars

(***************************************************************************)
(* Specification of the supervisor                                         *)
(***************************************************************************)
Init == SupervisorInit /\ WorkflowIdle /\ ExtIdle

Next ==
  \/ RegisterAgent /\ UNCHANGED <<wf_vars, ext_vars>>
  \/ UnregisterAgent /\ UNCHANGED <<wf_vars, ext_vars>>
  \/ AssignTask /\ UNCHANGED <<wf_vars, ext_vars>>
  \/ MarkTaskComplete /\ UNCHANGED <<wf_vars, ext_vars>>

Spec == Init /\ [][Next]_all_vars

TypeOK ==
  /\ \A i \in 1..Len(agent_registry) : agent_registry[i] \in AgentRecords
  /\ \A i, j \in 1..Len(agent_registry) :
       agent_registry[i].agent_id = agent_registry[j].agent_id => i = j
  /\ next_task_id \in 1..(MaxTasks + 1)

(***************************************************************************)
(* Properties of the supervisor                                            *)
(***************************************************************************)
Covers(agent, req) == req \subseteq agent.capabilities

QueuedIds(queue) == {queue[q].task_id : q \in 1..Len(queue)}

\* positions of the workers that hold task t
Holders(reg, t) == {i \in 1..Len(reg) : reg[i].current_task_id = t}

\* C1: whenever a task is assigned to a worker, by assign_task or by the
\* queue pass of mark_task_complete, the worker's capabilities are a superset
\* of the task's required capabilities, and assign_task with an empty
\* requirement set succeeds as soon as any worker is available.
C1_CapabilitySuperset ==
  [][/\ \A req \in SUBSET Capabilities, prio \in Priorities :
          assign_task(req, prio) =>
            /\ result'.success =>
                 \E i \in 1..Len(agent_registry') :
                   /\ agent_registry'[i].agent_id = result'.agent_id
                   /\ agent_registry'[i].current_task_id = next_task_id
                   /\ Covers(agent_registry'[i], req)
            /\ (/\ req = {}
                /\ \E i \in 1..Len(agent_registry) :
                     agent_registry[i].status = "available")
                 => result'.success
     /\ \A q \in 1..Len(task_queue) :
          task_queue[q].task_id \notin QueuedIds(task_queue') =>
            /\ Holders(agent_registry', task_queue[q].task_id) # {}
            /\ \A i \in Holders(agent_registry', task_queue[q].task_id) :
                 Covers(agent_registry'[i],
                        task_queue[q].required_capabilities)
    ]_vars

\* a task with a non-empty requirement set was assigned directly to a worker
\* that has more capabilities than required, while another queued task stays
\* queued
C1_Witness ==
  /\ result.op = "assign_task"
  /\ result.success
  /\ result.required_capabilities # {}
  /\ \E i \in 1..Len(agent_registry) :
       /\ agent_registry[i].agent_id = result.agent_id
       /\ agent_registry[i].capabilities # result.required_capabilities
  /\ task_queue # <<>>

\* C2: assign_task gives the task to the first worker in registry (insertion)
\* order that is available and covers the requirements, whatever the task's
\* priority and the workers' load, and it reports the task queued, appending
\* it to the end of the queue, if and only if there is no such worker.
C2_FirstMatchInRegistrationOrder ==
  [][\A req \in SUBSET Capabilities, prio \in Priorities :
       assign_task(req, prio) =>
         LET cand == {i \in 1..Len(agent_registry) :
                        /\ agent_registry[i].status = "available"
                        /\ Covers(agent_registry[i], req)}
         IN /\ result'.success <=> cand # {}
            /\ cand # {} =>
                 \E i \in cand :
                   /\ \A j \in cand : i <= j
                   /\ result'.agent_id = agent_registry[i].agent_id
                   /\ agent_registry' =
                        [agent_registry EXCEPT
                           ![i].status = "busy",
                           ![i].current_task_id = next_task_id]
                   /\ task_queue' = task_queue
            /\ cand = {} =>
                 /\ task_queue' =
                      Append(task_queue, Task(next_task_id, req, prio))
                 /\ agent_registry' = agent_registry
    ]_vars

\* the task went to the first of two workers although the second one was
\* available, covers the requirements and has completed fewer tasks
C2_Witness ==
  /\ result.op = "assign_task"
  /\ result.success
  /\ Len(agent_registry) = 2
  /\ agent_registry[1].agent_id = result.agent_id
  /\ agent_registry[2].status = "available"
  /\ Covers(agent_registry[2], result.required_capabilities)
  /\ agent_registry[1].tasks_completed > agent_registry[2].tasks_completed

\* C3: at-most-one assignment: no task is in flight with two workers or is
\* both queued and in flight, no task id is the current_task_id of two
\* registered workers, and a registered worker never has two tasks in flight
\* (it is not given a second task before it completed the first).
C3_AtMostOneAssignment ==
  /\ \A p1, p2 \in in_flight : p1[2] = p2[2] => p1 = p2
  /\ \A p \in in_flight : p[2] \notin QueuedIds(task_queue)
  /\ \A i, j \in 1..Len(agent_registry) :
       (/\ agent_registry[i].current_task_id # NoTask
        /\ agent_registry[i].current_task_id =
             agent_registry[j].current_task_id) => i = j
  /\ \A a \in AgentIds : Cardinality({p \in in_flight : p[1] = a}) <= 1

\* C4: a registered worker's status is busy if and only if its
\* current_task_id is set.
C4_BusyIffTaskSet ==
  \A i \in 1..Len(agent_registry) :
    agent_registry[i].status = "busy"
      <=> agent_registry[i].current_task_id # NoTask

\* a worker that went through assignment and completion stands next to a
\* worker that holds a task
C4_Witness ==
  /\ \E i \in 1..Len(agent_registry) :
       /\ agent_registry[i].status = "available"
       /\ agent_registry[i].tasks_completed > 0
  /\ \E i \in 1..Len(agent_registry) : agent_registry[i].status = "busy"

\* the earliest queued task that the worker agent_id covers, 0 if none
EarliestCovered(reg, queue, agent_id) ==
  LET k  == IndexOf(reg, agent_id)
      qs == {q \in 1..Len(queue) :
               Covers(reg[k], queue[q].required_capabilities)}
  IN IF qs = {} THEN 0 ELSE CHOOSE q \in qs : \A r \in qs : q <= r

NothingAssignable(reg, queue) ==
  \A q \in 1..Len(queue) : \A i \in 1..Len(reg) :
    ~(/\ reg[i].status = "available"
      /\ Covers(reg[i], queue[q].required_capabilities))

Handed ==
  {<<i, agent_registry'[i].current_task_id>> : i \in
     {j \in 1..Len(agent_registry') :
        /\ agent_registry'[j].current_task_id # NoTask
        /\ \A k \in 1..Len(agent_registry) :
             agent_registry[k].agent_id = agent_registry'[j].agent_id
               => agent_registry[k].current_task_id
                    # agent_registry'[j].current_task_id}}

\* position of a queued task id in a queue
QueuePosition(queue, task_id) ==
  CHOOSE q \in 1..Len(queue) : queue[q].task_id = task_id

\* the tasks left in the queue by a step keep their relative order
KeepsQueueOrder ==
  \A q1, q2 \in 1..Len(task_queue') :
    (/\ q1 < q2
     /\ task_queue'[q1].task_id \in QueuedIds(task_queue)
     /\ task_queue'[q2].task_id \in QueuedIds(task_queue))
      => QueuePosition(task_queue, task_queue'[q1].task_id)
           < QueuePosition(task_queue, task_queue'[q2].task_id)

\* C34: queued tasks are served in FIFO order: no step hands a task to a
\* worker while a task submitted earlier (task ids are given in submission
\* order) that this worker covers is left waiting in the queue, and the
\* queue pass of mark_task_complete leaves the tasks it does not assign in
\* their relative order.
C34_QueueIsServedFifo ==
  [][/\ \A h \in Handed :
          \A q \in 1..Len(task_queue') :
            task_queue'[q].task_id < h[2]
              => ~Covers(agent_registry'[h[1]],
                         task_queue'[q].required_capabilities)
     /\ KeepsQueueOrder
    ]_vars

\* the queue pass on its own is FIFO: a successful mark_task_complete hands
\* out no task ahead of an earlier queued one that the receiving worker
\* covers, and keeps the order of what it leaves
QueuePassIsFifo ==
  [][\A t \in TaskIds, a \in AgentIds :
       (mark_task_complete(t, a) /\ result'.success) =>
         /\ \A h \in Handed :
              \A q \in 1..Len(task_queue') :
                (/\ task_queue'[q].task_id < h[2]
                 /\ h[2] \in QueuedIds(task_queue))
                  => ~Covers(agent_registry'[h[1]],
                             task_queue'[q].required_capabilities)
         /\ KeepsQueueOrder
    ]_vars

\* C36: work conservation: after every public operation has returned, no
\* task is left in the queue while a registered worker is available whose
\* capabilities cover the task's requirements.
C36_WorkConservation == NothingAssignable(agent_registry, task_queue)

\* C37: register_agent with an id that is already registered leaves a busy
\* worker busy with the same current_task_id, so that the task it holds can
\* still be completed with mark_task_complete.
C37_ReRegistrationKeepsWork ==
  [][\A id \in AgentIds, caps \in SUBSET Capabilities :
       (/\ register_agent(id, caps)
        /\ id \in RegisteredIds(agent_registry)
        /\ agent_registry[IndexOf(agent_registry, id)].status = "busy") =>
         LET k == IndexOf(agent_registry, id)
         IN /\ agent_registry'[k].status = "busy"
            /\ agent_registry'[k].current_task_id
                 = agent_registry[k].current_task_id
            /\ holds_task(agent_registry',
                          agent_registry[k].current_task_id, id)
    ]_vars

(***************************************************************************)
(* Supervisor: descriptors, unregistration by id and health reports        *)
(***************************************************************************)
\* a key that a descriptor does not have
Missing == "missing"

\* what stands for the value of a missing key
MissingOf(key) == IF key = "capabilities" THEN {Missing} ELSE Missing

DefaultName == "Unknown Agent"

\* agent ids a caller may put in a descriptor or pass to unregister_agent:
\* the empty string is a string like any other
GivenIds == {"", "w1"}

\* str(uuid.uuid4()): ids that no caller chose
GeneratedIds == {"u1"}

RegistryIds == GivenIds \cup GeneratedIds

\* the dicts register_agent is called with: each of the three keys may
\* be missing
Descriptors ==
  [agent_id : {Missing} \cup GivenIds,
   name : {Missing, "Test Agent"},
   capabilities : {{Missing}, {"research"}}]

\* {}
EmptyDescriptor ==
  [agent_id |-> Missing, name |-> Missing, capabilities |-> {Missing}]

\* None in the place of the descriptor
NoDescriptor == [agent_id |-> None, name |-> None, capabilities |-> {None}]

\* agent_data = {"name": "Unknown Agent", "capabilities": []}
default_agent_data ==
  [agent_id |-> Missing, name |-> DefaultName, capabilities |-> {}]

\* agent_data.get(key, default)
Get(agent_data, key, default) ==
  IF agent_data[key] = MissingOf(key) THEN default ELSE agent_data[key]

\* AgentState(agent_id=..., name=..., capabilities=..., status=AVAILABLE,
\* current_task_id=None)
NamedAgentState(id, name, caps) ==
  [agent_id |-> id, name |-> name, capabilities |-> caps,
   status |-> "available", current_task_id |-> NoTask, tasks_completed |-> 0]

\* mutant: a descriptor's own id is ignored
agent_from_generated_id(agent_data, generated) ==
  LET data == IF agent_data \in {NoDescriptor, EmptyDescriptor}
              THEN default_agent_data ELSE agent_data
  IN NamedAgentState(generated, Get(data, "name", DefaultName),
                     Get(data, "capabilities", {}))

\* the AgentState _register_agent_node builds from a descriptor; generated
\* is the uuid it falls back to
agent_from(agent_data, generated) ==
  LET data == IF agent_data \in {NoDescriptor, EmptyDescriptor}
              THEN default_agent_data ELSE agent_data
  IN NamedAgentState(Get(data, "agent_id", generated),
                     Get(data, "name", DefaultName),
                     Get(data, "capabilities", {}))

\* register_agent(agent_data)
register_agent_data(agent_data) ==
  /\ GeneratedIds \ RegisteredIds(agent_registry) # {}
  /\ LET generated == CHOOSE id \in GeneratedIds :
                        id \notin RegisteredIds(agent_registry)
         agent == agent_from(agent_data, generated)
     IN /\ agent_registry' = StoreAgent(agent_registry, agent)
        /\ result' = [op |-> "register_agent", success |-> TRUE,
                      agent_id |-> agent.agent_id, name |-> agent.name]
  /\ UNCHANGED <<task_queue, next_task_id, in_flight>>

\* agent_id is truthy
id_given(id) == id \notin {None, ""}

\* unregister_agent(agent_id): the node returns at once without an id, and
\* the caller then finds no unregistration_result
unregister_agent_id(id) ==
  IF ~id_given(id)
  THEN /\ result' = [op |-> "unregister_agent", success |-> FALSE,
                     agent_id |-> id, error |-> "Unknown error"]
       /\ UNCHANGED <<agent_registry, task_queue, next_task_id, in_flight>>
  ELSE IF id \in RegisteredIds(agent_registry)
  THEN /\ agent_registry' = RemoveAgent(agent_registry, id)
       /\ in_flight' = {p \in in_flight : p[1] # id}
       /\ result' = [op |-> "unregister_agent", success |-> TRUE,
                     agent_id |-> id, error |-> None]
       /\ UNCHANGED <<task_queue, next_task_id>>
  ELSE /\ result' = [op |-> "unregister_agent", success |-> FALSE,
                     agent_id |-> id, error |-> "not found"]
       /\ UNCHANGED <<agent_registry, task_queue, next_task_id, in_flight>>

\* number of registered workers with a status in statuses
CountStatus(reg, statuses) ==
  Cardinality({i \in 1..Len(reg) : reg[i].status \in statuses})

\* mutant: busy workers are counted as offline
health_report_busy_as_offline(reg, queue) ==
  [total_agents |-> Len(reg),
   available_agents |-> CountStatus(reg, {"available"}),
   busy_agents |-> 0,
   offline_agents |-> Len(reg) - CountStatus(reg, {"available"}),
   queued_tasks |-> Len(queue),
   agent_details |-> [i \in 1..Len(reg) |->
                        [agent_id |-> reg[i].agent_id,
                         status |-> reg[i].status,
                         current_task |-> reg[i].current_task_id]]]

\* the health_report dict of _monitor_health_node
health_report(reg, queue) ==
  [total_agents |-> Len(reg),
   available_agents |-> CountStatus(reg, {"available"}),
   busy_agents |-> CountStatus(reg, {"busy"}),
   offline_agents |-> Len(reg) - CountStatus(reg, {"available", "busy"}),
   queued_tasks |-> Len(queue),
   agent_details |-> [i \in 1..Len(reg) |->
                        [agent_id |-> reg[i].agent_id,
                         status |-> reg[i].status,
                         current_task |-> reg[i].current_task_id]]]

\* get_health_report()
get_health_report ==
  /\ result' = [op |-> "get_health_report",
                value |-> health_report(agent_registry, task_queue)]
  /\ UNCHANGED <<agent_registry, task_queue, next_task_id, in_flight>>

RegisterAgentData == \E agent_data \in Descriptors \cup {NoDescriptor} :
                       register_agent_data(agent_data)

UnregisterAgentId == \E id \in RegistryIds : unregister_agent_id(id)

\* tasks that any worker or only a researcher can take
SubmitTask == \E req \in {{}, {"research"}} : assign_task(req, "low")

\* a worker reports the task it holds
CompleteHeldTask ==
  \E i \in 1..Len(agent_registry) :
    /\ agent_registry[i].current_task_id # NoTask
    /\ mark_task_complete(agent_registry[i].current_task_id,
                          agent_registry[i].agent_id)

RegistryNext ==
  \/ RegisterAgentData /\ UNCHANGED <<wf_vars, ext_vars>>
  \/ UnregisterAgentId /\ UNCHANGED <<wf_vars, ext_vars>>
  \/ SubmitTask /\ UNCHANGED <<wf_vars, ext_vars>>
  \/ CompleteHeldTask /\ UNCHANGED <<wf_vars, ext_vars>>
  \/ get_health_report /\ UNCHANGED <<wf_vars, ext_vars>>

SpecRegistry == Init /\ [][RegistryNext]_all_vars

\* the registry after a step holds every worker but id as it was, in the
\* same order
OthersUnchanged(id) ==
  LET kept(reg) == {i \in 1..Len(reg) : reg[i].agent_id # id}
  IN /\ Cardinality(kept(agent_registry')) = Cardinality(kept(agent_registry))
     /\ \A i \in kept(agent_registry) :
          \E j \in kept(agent_registry') :
            /\ agent_registry'[j] = agent_registry[i]
            /\ Cardinality({k \in kept(agent_registry') : k < j})
                 = Cardinality({k \in kept(agent_registry) : k < i})

\* what C31 asks of unregister_agent(id)
UnregisterIsExact(id) ==
  IF id \in RegisteredIds(agent_registry)
  THEN /\ result'.success
       /\ id \notin RegisteredIds(agent_registry')
       /\ OthersUnchanged(id)
       /\ task_queue' = task_queue
  ELSE /\ ~result'.success
       /\ result'.error = "not found"
       /\ agent_registry' = agent_registry
       /\ task_queue' = task_queue

\* C31: unregister_agent(id) removes exactly the worker with that id and
\* reports success when the id is registered, leaving every other worker as
\* it was and the queue untouched (a task the removed worker held is neither
\* queued again nor given to another worker); when the id is not registered
\* it reports a not-found failure and changes neither registry nor queue.
C31_UnregisterRemovesExactlyOne ==
  [][\A id \in RegistryIds :
       (result'.op = "unregister_agent" /\ unregister_agent_id(id))
         => UnregisterIsExact(id)
    ]_vars

C33_HealthReportIsReadOnlySnapshot ==
  [][get_health_report
       => LET report == result'.value
          IN /\ agent_registry' = agent_registry
             /\ task_queue' = task_queue
             /\ report.total_agents = Len(agent_registry)
             /\ report.total_agents
                  = report.available_agents + report.busy_agents
                      + report.offline_agents
             /\ report.offline_agents
                  = Cardinality({i \in 1..Len(agent_registry) :
                                  agent_registry[i].status
                                    \notin {"available", "busy"}})
             /\ report.queued_tasks = Len(task_queue)
    ]_vars

\* a report was made of an available worker, a busy worker and a waiting
\* task
C33_Witness ==
  /\ result.op = "get_health_report"
  /\ result.value.available_agents > 0
  /\ result.value.busy_agents > 0
  /\ result.value.queued_tasks > 0

\* the same holds for every id that is not the empty string
UnregisterOfNonEmptyIdIsExact ==
  [][\A id \in RegistryIds \ {""} :
       (result'.op = "unregister_agent" /\ unregister_agent_id(id))
         => UnregisterIsExact(id)
    ]_vars

(***************************************************************************)
(* Conditional workflow: failure and recovery                              *)
(***************************************************************************)
\* the agents listed for a capability by the registry
AgentsFor(capability) ==
  {build_agent_registry[capability][i] :
     i \in 1..Len(build_agent_registry[capability])}

\* a backup exists for the failure recorded in the state
BackupExists(st) ==
  /\ st.required_capability # None
  /\ AgentsFor(st.required_capability) \ {st.failed_agent_id} # {}

\* the steps that hand their task to a worker agent
WorkerSteps == {"content_analyzer"} \cup Processors

\* no run of execute_workflow triggers agent_failure_recovery
RecoveryUnreachable == "agent_failure_recovery" \notin active \cup pending

\* C8: when a worker step raises and no backup is in use yet, the Failure
\* Manager has stamped the failure (failed_agent_id is set) and the step
\* executed next is agent_failure_recovery, not error_handler.
C8_FailureRoutesToRecovery ==
  \A i \in 1..Len(executed) :
    (/\ executed[i].step \in WorkerSteps
     /\ executed[i].raised
     /\ ~executed[i].backup_agent_used)
    => /\ state.failed_agent_id # None
       /\ i < Len(executed) => executed[i + 1].step = "agent_failure_recovery"

\* C9: when agent_failure_recovery runs with reroute_count < max_reroutes
\* and a backup exists for the required capability, then afterwards the
\* failed worker's slot holds the instance of a different worker listed for
\* the required capability, reroute_count is one higher, error_occurred is
\* false, backup_agent_used is true, the failed step (error_step) is not in
\* completed_steps, and its prior result is kept under '<step>_failed'.
C9_RecoverySubstitutesBackup ==
  [][(/\ agent_failure_recovery_node
      /\ state.reroute_count < MaxReroutesOf(state)
      /\ BackupExists(state))
     => /\ \E b \in AgentsFor(state.required_capability) :
             /\ b # state.failed_agent_id
             /\ worker_agents'[state.failed_agent_id] = worker_agents[b]
        /\ worker_agents'[state.failed_agent_id]
             # worker_agents[state.failed_agent_id]
        /\ state'.reroute_count = state.reroute_count + 1
        /\ ~state'.error_occurred
        /\ state'.backup_agent_used
        /\ state.error_step # None
             => ~Contains(state'.completed_steps, state.error_step)
        /\ (/\ state.error_step # None
            /\ state.error_step \in ResultKeys(state.step_results))
             => /\ state.error_step \notin ResultKeys(state'.step_results)
                /\ FailedKey(state.error_step)
                     \in ResultKeys(state'.step_results)
                /\ ResultOf(state'.step_results, FailedKey(state.error_step))
                     = ResultOf(state.step_results, state.error_step)
    ]_all_vars

\* recovery has just replaced text_analyzer by its backup for a failure at
\* content_analyzer, whose earlier result was moved aside
C9_Witness ==
  /\ Len(executed) = 1
  /\ executed[1].step = "agent_failure_recovery"
  /\ ~executed[1].raised
  /\ worker_agents["text_analyzer"] = "backup_text_analyzer"
  /\ state.reroute_count = 1
  /\ ~Contains(state.completed_steps, "content_analyzer")
  /\ "content_analyzer_failed" \in ResultKeys(state.step_results)

\* the run is over: no node is left to execute
Returned == active = {} /\ executed # <<>>

RecoveryFailureIsTerminal ==
  [][(/\ agent_failure_recovery_node
      /\ \/ state.reroute_count >= MaxReroutesOf(state)
         \/ ~BackupExists(state))
     => /\ worker_agents' = worker_agents
        /\ state'.reroute_count = state.reroute_count
        /\ state'.error_occurred
        /\ "error_handler" \in active'
        /\ active' \cap {"content_analyzer", "conditional_router"} = {}
    ]_all_vars

FailedRecoveryEndsFailed ==
  (Returned /\ executed[1].raised) => state.status = "failed"

\* C11: in every state of a run 0 <= reroute_count <= max_reroutes; a
\* backup is substituted only by a step that also counts it in
\* reroute_count, so the substitutions of a run never exceed max_reroutes;
\* and once the budget is spent and the run is stamped failed,
\* backup_agent_used does not change again.
C11_RerouteBound ==
  /\ [](/\ 0 <= state.reroute_count
        /\ state.reroute_count <= MaxReroutesOf(state))
  /\ [][/\ worker_agents' # worker_agents
             => state'.reroute_count = state.reroute_count + 1
        /\ (/\ state.reroute_count >= MaxReroutesOf(state)
            /\ state.status = "failed")
             => state'.backup_agent_used = state.backup_agent_used
       ]_all_vars

\* the last reroute of the budget was spent on a backup that failed as
\* well: the run is stamped failed and error_handler has run since
C11_Witness ==
  /\ Len(executed) >= 3
  /\ executed[1].step = "agent_failure_recovery"
  /\ ~executed[1].raised
  /\ state.reroute_count = MaxReroutesOf(state)
  /\ state.status = "failed"
  /\ state.backup_agent_used
  /\ \E i \in 1..Len(executed) : executed[i].step = "error_handler"

(***************************************************************************)
(* The graph run to completion                                             *)
(***************************************************************************)
\* graph.add_node(...)
Nodes ==
  {"supervisor", "content_analyzer", "conditional_router",
   "agent_failure_recovery", "error_handler", "workflow_finalizer"}
    \cup Processors

\* one node call of workflow_graph.invoke
NodeStep ==
  \/ supervisor_node /\ UNCHANGED <<vars, ext_vars>>
  \/ RunContentAnalyzer /\ UNCHANGED <<vars, ext_vars>>
  \/ conditional_router_node /\ UNCHANGED <<vars, ext_vars>>
  \/ RunSentimentProcessor /\ UNCHANGED <<vars, ext_vars>>
  \/ agent_failure_recovery_node /\ UNCHANGED <<vars, ext_vars>>
  \/ error_handler_node /\ UNCHANGED <<vars, ext_vars>>
  \/ workflow_finalizer_node /\ UNCHANGED <<vars, ext_vars>>

GraphNext ==
  \/ (\E input \in Inputs : execute_workflow(input)) /\ UNCHANGED <<vars, ext_vars>>
  \/ NodeStep

\* runs started by execute_workflow and runs entered at recovery;
\* workflow_graph.invoke keeps calling nodes while any is triggered
SpecGraph ==
  /\ WfInit \/ RecInit
  /\ [][GraphNext]_all_vars
  /\ WF_all_vars(NodeStep)

\* a run makes no more node calls than the graph has nodes
MaxNodeCalls == Cardinality(Nodes)

\* C12: every run terminates and hands back a terminal record: a run calls
\* a bounded number of nodes, a run that has nodes to call reaches the
\* point where none is left, and the state it returns then has status
\* completed or failed.
C12_WorkflowTerminates ==
  /\ [](Len(executed) <= MaxNodeCalls)
  /\ (active # {}) ~> (active = {})
  /\ [](Returned => state.status \in {"completed", "failed"})

\* a run whose worker kept failing after a reroute has returned
C12_Witness ==
  /\ Returned
  /\ state.reroute_count >= 1
  /\ state.status = "failed"
  /\ \E i \in 1..Len(executed) :
       executed[i].step = "content_analyzer" /\ executed[i].raised

\* the step of the last node call of the run
LastStep == executed[Len(executed)].step

\* C13: workflow_finalizer is the single terminal step: it is only ever the
\* last node call of a run and leaves no node to call, a run that has
\* returned ended with it, the finalizer turns every status but failed into
\* completed, and the status of a returned run is completed or failed.
C13_FinalizerIsSingleTerminalStep ==
  /\ [](/\ \A i \in 1..Len(executed) :
             executed[i].step = "workflow_finalizer"
               => i = Len(executed) /\ active = {}
        /\ Returned
             => /\ LastStep = "workflow_finalizer"
                /\ state.status \in {"completed", "failed"})
  /\ [][workflow_finalizer_node
          => state'.status = IF state.status = "failed" THEN "failed"
                             ELSE "completed"
       ]_all_vars

\* a run that went through a sentiment processor has returned completed
C13_Witness ==
  /\ Returned
  /\ LastStep = "workflow_finalizer"
  /\ state.status = "completed"
  /\ \E i \in 1..Len(executed) : executed[i].step \in Processors

\* C14: error_handler never leads to a retry: the node called after it is
\* workflow_finalizer and nothing else is called later in the run, it
\* triggers workflow_finalizer only, and it stamps status failed while
\* leaving step_results and completed_steps as they were.
C14_ErrorHandlerNeverRetries ==
  /\ [](\A i \in 1..Len(executed) :
          executed[i].step = "error_handler"
            => /\ \A j \in (i + 1)..Len(executed) :
                    executed[j].step = "workflow_finalizer"
               /\ active \cup pending \subseteq {"workflow_finalizer"}
               /\ i = Len(executed) => "workflow_finalizer" \in active)
  /\ [][error_handler_node
          => /\ state'.status = "failed"
             /\ state'.step_results = state.step_results
             /\ state'.completed_steps = state.completed_steps
       ]_all_vars

\* error_handler has handled a failure for which a backup would have been
\* available within the budget, and the finalizer has run after it
C14_Witness ==
  /\ Returned
  /\ Len(executed) >= 2
  /\ executed[Len(executed) - 1].step = "error_handler"
  /\ LastStep = "workflow_finalizer"
  /\ route_after_error_handler(state) = "agent_failure_recovery"
  /\ state.step_results # <<>>

(***************************************************************************)
(* A failure of the backup                                                 *)
(***************************************************************************)
\* the step taken ran a worker step that raised while a backup was in use
RaisedOnBackup ==
  /\ Len(executed') = Len(executed) + 1
  /\ executed'[Len(executed')].step \in WorkerSteps
  /\ executed'[Len(executed')].raised
  /\ state.backup_agent_used

\* positions in executed of the worker steps that raised with a backup in
\* use
BackupFailures ==
  {i \in 1..Len(executed) : /\ executed[i].step \in WorkerSteps
                            /\ executed[i].raised
                            /\ executed[i].backup_agent_used}

\* C35: when a step raises while a backup is in use, the Failure Manager is
\* not invoked (nothing is added to its history and the recorded failure
\* stays as it is), reroute_count is not incremented and error_handler is
\* the one step the failed step triggers; nothing but error_handler and
\* workflow_finalizer runs after it, so a run performs at most one recovery
\* and at most one automatic retry of a step.
C35_BackupFailureIsFinal ==
  /\ [][RaisedOnBackup
          => LET node == executed'[Len(executed')].step
             IN /\ failure_history' = failure_history
                /\ state'.failed_agent_id = state.failed_agent_id
                /\ state'.reroute_count = state.reroute_count
                /\ state'.error_occurred
                /\ "error_handler" \in active' \cup pending'
                /\ active' \cup pending'
                     \subseteq ((active \cup pending) \ {node})
                                 \cup {"error_handler"}
       ]_all_vars
  /\ [](/\ \A i \in BackupFailures :
             \A j \in (i + 1)..Len(executed) :
               executed[j].step \in {"error_handler", "workflow_finalizer"}
        /\ Cardinality({i \in 1..Len(executed) :
                          executed[i].step = "agent_failure_recovery"}) <= 1
        /\ \A i, j \in 1..Len(executed) :
             (/\ executed[i].step \in WorkerSteps
              /\ executed[i].step = executed[j].step) => i = j)

\* the backup of the content analyzer raised on the retry, and error_handler
\* ran after it
C35_Witness ==
  /\ Len(executed) >= 3
  /\ executed[1].step = "agent_failure_recovery"
  /\ ~executed[1].raised
  /\ \E i \in BackupFailures :
       /\ executed[i].step = "content_analyzer"
       /\ \E j \in (i + 1)..Len(executed) :
            executed[j].step = "error_handler"
  /\ state.reroute_count > 0

\* how often workflow_finalizer has run in this run
FinalizerRuns ==
  Cardinality({i \in 1..Len(executed) :
                 executed[i].step = "workflow_finalizer"})

FinalizerRunsTwiceAfterRecovery ==
  Returned => FinalizerRuns >= 2

(***************************************************************************)
(* The router called on its own                                            *)
(***************************************************************************)
\* number of logged routing decisions per behaviour
MaxRouteCalls == 2

\* Optional[float] scores in hundredths, on and next to the thresholds
SentimentScores == {NoNumber, -30, -29, 0, 69, 70}

Confidences == {NoNumber, 59, 60, 89, 90}

ContentTypes == {None, "technical", "marketing", "customer_feedback",
                 "general"}

\* a routing_type that is no key of routing_rules falls back to sentiment
RoutingTypeArgs == RoutingTypes \cup {"unknown"}

\* the states the router is asked about
RouterStates ==
  {[InitialState("plain") EXCEPT
      !.sentiment_score = score,
      !.content_type = type,
      !.analysis_confidence = confidence,
      !.error_occurred = error,
      !.failed_agent_id = failed,
      !.reroute_count = count,
      !.max_reroutes = max] :
     score \in SentimentScores, type \in ContentTypes,
     confidence \in Confidences, error \in BOOLEAN,
     failed \in {None, "text_analyzer"}, count \in 0..DefaultMaxReroutes,
     max \in {NoNumber, 1}}

RouterInit ==
  /\ SupervisorInit
  /\ ExtIdle
  /\ OrchestratorInit
  /\ state \in RouterStates
  /\ active = {}
  /\ pending = {}
  /\ executed = <<>>
  /\ runs = 0
  /\ route_result = NoRoute

\* router.route(state, routing_type)
route_call(routing_type) ==
  /\ Len(state.routing_history) < MaxRouteCalls
  /\ LET r == route(state, routing_type)
     IN /\ state' = r.state
        /\ route_result' = RouteResult(routing_type, r.decision)
  /\ UNCHANGED <<worker_agents, original_agents, failure_history, active,
                 pending, executed, runs>>

RouteCall == \E routing_type \in RoutingTypeArgs : route_call(routing_type)

RouterNext == RouteCall /\ UNCHANGED <<vars, ext_vars>>

SpecRouter == RouterInit /\ [][RouterNext]_all_vars

\* C15: every call of the router that returns a decision, by whichever
\* strategy, appends exactly one entry to routing_history: the strategy,
\* the decision and the snapshot of the signals of the state it was asked
\* about.
C15_EveryDecisionIsLogged ==
  [][RouteCall
       => /\ Len(state'.routing_history) = Len(state.routing_history) + 1
          /\ SubSeq(state'.routing_history, 1, Len(state.routing_history))
               = state.routing_history
          /\ state'.routing_history[Len(state'.routing_history)]
               = routing_entry(route_result'.routing_type,
                               route_result'.decision, state)
    ]_all_vars

\* what does hold: a decision taken with no error flagged is logged
DecisionWithoutErrorIsLogged ==
  [][(RouteCall /\ ~state.error_occurred)
       => /\ Len(state'.routing_history) = Len(state.routing_history) + 1
          /\ SubSeq(state'.routing_history, 1, Len(state.routing_history))
               = state.routing_history
          /\ state'.routing_history[Len(state'.routing_history)]
               = routing_entry(route_result'.routing_type,
                               route_result'.decision, state)
    ]_all_vars

\* and a decision taken with an error flagged leaves the state as it was
DecisionOnErrorIsNotLogged ==
  [][(RouteCall /\ state.error_occurred) => state' = state]_all_vars

\* the recovery step found a backup and cleared the error
RecoverySucceeds ==
  /\ agent_failure_recovery_node
  /\ state'.backup_agent_used
  /\ ~state'.error_occurred

RetryTargetFollowsErrorStep ==
  [][RecoverySucceeds
       => active' \ {"workflow_finalizer"} =
            {IF state.error_step = "content_analyzer"
             THEN "content_analyzer" ELSE "conditional_router"}
    ]_all_vars

\* the agent id whose instance a worker step asks for
AgentOfStep(step) ==
  IF step = "content_analyzer" THEN "text_analyzer" ELSE ProcessorAgent(step)

RunStateIsFresh ==
  executed # <<>> /\ executed[1].step = "supervisor"
    => /\ state.reroute_count = 0
       /\ ~state.backup_agent_used
       /\ state.failed_agent_id \in {None, "text_analyzer"}
       /\ state.failed_agent_id = "text_analyzer"
            => \E i \in 1..Len(executed) :
                 executed[i].step = "content_analyzer" /\ executed[i].raised

\* C18: when the supervisor step rejects the input, no worker step is
\* executed afterwards in the run and the Failure Manager records no worker
\* failure for it.
C18_ValidationErrorDoesNotPropagate ==
  (/\ executed # <<>>
   /\ executed[1].step = "supervisor"
   /\ executed[1].raised)
    => /\ \A i \in 2..Len(executed) : executed[i].step \notin WorkerSteps
       /\ state.failed_agent_id = None

\* the sentiment score the router was asked about, a missing one read as 0
ScoreAsked == IF state.sentiment_score = NoNumber THEN 0
              ELSE state.sentiment_score

\* C19: with no error flagged the sentiment-based router returns the
\* positive processor for a score >= 0.7, the negative processor for a
\* score <= -0.3 and the neutral processor otherwise, a missing score
\* counting as 0.0 (scores in hundredths).
C19_SentimentRouting ==
  [][(/\ RouteCall
      /\ ~state.error_occurred
      /\ route_result'.routing_type = "sentiment_based")
     => /\ ScoreAsked >= 70
             => route_result'.decision = "positive_sentiment_processor"
        /\ ScoreAsked <= -30
             => route_result'.decision = "negative_sentiment_processor"
        /\ (ScoreAsked < 70 /\ ScoreAsked > -30)
             => route_result'.decision = "neutral_sentiment_processor"
    ]_all_vars

\* the router was asked about a score on the positive threshold and about
\* no score at all
C19_Witness ==
  /\ Len(state.routing_history) = 2
  /\ state.sentiment_score \in {70, NoNumber}
  /\ ~state.error_occurred
  /\ route_result.routing_type = "sentiment_based"
  /\ route_result.decision =
       IF state.sentiment_score = 70 THEN "positive_sentiment_processor"
       ELSE "neutral_sentiment_processor"

\* C20: the error-based router returns agent_failure_recovery exactly when
\* a failed worker id is present and reroute_count < max_reroutes, and
\* error_handler in every other case.
C20_ErrorRouting ==
  [][(/\ RouteCall
      /\ \/ state.error_occurred
         \/ route_result'.routing_type = "error_based")
     => route_result'.decision =
          IF /\ state.failed_agent_id # None
             /\ state.reroute_count < MaxReroutesOf(state)
          THEN "agent_failure_recovery"
          ELSE "error_handler"
    ]_all_vars

\* the router sent a flagged failure to recovery on the last reroute of the
\* budget
C20_Witness ==
  /\ state.error_occurred
  /\ state.failed_agent_id = "text_analyzer"
  /\ state.reroute_count = MaxReroutesOf(state) - 1
  /\ route_result.decision = "agent_failure_recovery"

\* the routing signals and error fields of a state
Signals(st) ==
  <<st.sentiment_score, st.content_type, st.analysis_confidence,
    st.error_occurred, st.failed_agent_id, st.reroute_count, st.max_reroutes>>

\* the states that agree with st on the signals and were never routed
Unrouted(st) ==
  {other \in {[st EXCEPT !.routing_history = <<>>,
                         !.routing_decision = None]} :
     Signals(other) = Signals(st)}

\* C21: for each routing strategy, two calls of route on states that agree
\* on the routing signals and the error fields return the same next step,
\* whatever routing_history holds and whatever was routed before.
C21_RoutingIsDeterministic ==
  [][\A routing_type \in RoutingTypeArgs :
       route_call(routing_type)
         => \A other \in Unrouted(state) :
              route(other, routing_type).decision = route_result'.decision
    ]_all_vars

\* a second strategy was asked after a first one had logged another decision
C21_Witness ==
  /\ Len(state.routing_history) = 2
  /\ state.routing_history[1].routing_type = "sentiment_based"
  /\ route_result.routing_type = "confidence_based"
  /\ state.routing_history[2].decision = route_result.decision
  /\ state.routing_history[1].decision # route_result.decision

(***************************************************************************)
(* Peer-to-peer communication: AgentMessage, MessageQueue and              *)
(* P2PCommunicationManager (src/src/p2p_communication.py)                  *)
(***************************************************************************)
\* number of AgentMessage objects delivered in one behaviour
MaxMessages == 2

\* number of mark_processed calls on one queue
MaxMarks == 2

P2PAgents == {"alice", "bob", "carol"}

\* recipient_id of a message for every registered agent
Broadcast == "broadcast"

MessageTypes == {"request", "report"}

MessagePriorities == {"urgent", "high", "normal", "low"}

\* datetime values, explicit or taken from the clock when the object is built
Timestamps == {1, 2}

\* explicit conversation ids
ConversationIds == {"thread"}

\* str(uuid.uuid4()) of the k-th object built
uuid4(k) == <<"m1", "m2", "m3", "m4", "m5">>[k]

\* mutant: the priorities compared by their names
priority_order_by_name(priority) ==
  CASE priority = "high" -> 0
    [] priority = "low" -> 1
    [] priority = "normal" -> 2
    [] priority = "urgent" -> 3
\* priority_order of get_unprocessed_messages
priority_order(priority) ==
  CASE priority = "urgent" -> 0
    [] priority = "high" -> 1
    [] priority = "normal" -> 2
    [] priority = "low" -> 3

AgentMessage(message_id, conversation_id, sender_id, recipient_id, reply_to, message_type, priority, timestamp) ==
  [message_id |-> message_id,
   conversation_id |-> conversation_id,
   sender_id |-> sender_id,
   recipient_id |-> recipient_id,
   reply_to |-> reply_to,
   message_type |-> message_type,
   priority |-> priority,
   timestamp |-> timestamp,
   processed |-> FALSE]

\* AgentMessage.create_response: the reply gets an id and a timestamp of its
\* own
create_response(message, message_id, sender_id, timestamp) ==
  AgentMessage(message_id,
               IF message.conversation_id # None
               THEN message.conversation_id ELSE message.message_id,
               sender_id, message.sender_id, message.message_id,
               "response", message.priority, timestamp)

MessageQueue(agent_id) ==
  [agent_id |-> agent_id, inbox |-> <<>>, outbox |-> <<>>,
   processed_messages |-> <<>>]

\* the manager object: the four collections the operations work on
Manager ==
  [messages |-> messages, agent_queues |-> agent_queues,
   message_history |-> message_history,
   conversation_threads |-> conversation_threads]

QueueAgents(queues) == {queues[i].agent_id : i \in 1..Len(queues)}

\* position of agent_queues[agent_id]
QueueOf(queues, agent_id) ==
  CHOOSE i \in 1..Len(queues) : queues[i].agent_id = agent_id

\* MessageQueue.add_incoming_message
add_incoming_message(queue, ref, message_id) ==
  IF Contains(queue.processed_messages, message_id) THEN queue
  ELSE [queue EXCEPT !.inbox = Append(@, ref)]

\* MessageQueue.add_outgoing_message
add_outgoing_message(queue, ref) == [queue EXCEPT !.outbox = Append(@, ref)]

\* sorted(refs, key): Python's sort is stable
RECURSIVE InsertSorted(_, _, _)
InsertSorted(sorted, ref, key) ==
  IF sorted = <<>> THEN <<ref>>
  ELSE LET a == key[Head(sorted)]
           b == key[ref]
       IN IF b[1] < a[1] \/ (b[1] = a[1] /\ b[2] < a[2])
          THEN <<ref>> \o sorted
          ELSE <<Head(sorted)>> \o InsertSorted(Tail(sorted), ref, key)

RECURSIVE SortedBy(_, _)
SortedBy(refs, key) ==
  IF refs = <<>> THEN <<>>
  ELSE InsertSorted(SortedBy(SubSeq(refs, 1, Len(refs) - 1), key),
                    refs[Len(refs)], key)

\* MessageQueue.get_unprocessed_messages
get_unprocessed_messages(m, queue, message_type) ==
  LET unprocessed == SelectSeq(queue.inbox,
                               LAMBDA ref : ~m.messages[ref].processed)
      of_type == IF message_type = None THEN unprocessed
                 ELSE SelectSeq(unprocessed,
                                LAMBDA ref : m.messages[ref].message_type
                                               = message_type)
      key == [ref \in 1..Len(m.messages) |->
                <<priority_order(m.messages[ref].priority),
                  m.messages[ref].timestamp>>]
  IN SortedBy(of_type, key)

\* the first inbox position that holds a message with this id, 0 if none
FirstWithId(m, queue, message_id) ==
  LET hits == {i \in 1..Len(queue.inbox) :
                 m.messages[queue.inbox[i]].message_id = message_id}
  IN IF hits = {} THEN 0
     ELSE CHOOSE i \in hits : \A j \in hits : i <= j

\* MessageQueue.mark_processed on queue number q
mark_processed(m, q, message_id) ==
  LET queue == m.agent_queues[q]
      i == FirstWithId(m, queue, message_id)
  IN IF i = 0 THEN m
     ELSE [m EXCEPT
             !.messages[queue.inbox[i]].processed = TRUE,
             !.agent_queues[q].processed_messages = Append(@, message_id)]

\* P2PCommunicationManager.register_agent
p2p_register_agent(queues, agent_id) ==
  IF agent_id \in QueueAgents(queues) THEN queues
  ELSE Append(queues, MessageQueue(agent_id))

\* mutant: every message is filed under its own id
ThreadKeyOwnId(message) == message.message_id
\* the key of conversation_threads a message is filed under
ThreadKey(message) ==
  IF message.conversation_id # None THEN message.conversation_id
  ELSE message.message_id

\* send_message for a recipient other than "broadcast"; the sender is
\* registered already
send_direct(m, ref) ==
  LET message == m.messages[ref]
      registered == p2p_register_agent(m.agent_queues, message.recipient_id)
      sender == QueueOf(registered, message.sender_id)
      sent == [registered EXCEPT ![sender] = add_outgoing_message(@, ref)]
      recipient == QueueOf(sent, message.recipient_id)
      received == [sent EXCEPT
                     ![recipient] =
                        add_incoming_message(@, ref, message.message_id)]
      conversation_id == ThreadKey(message)
      threads == m.conversation_threads
  IN [m EXCEPT
        !.agent_queues = received,
        !.message_history = Append(@, ref),
        !.conversation_threads =
           IF conversation_id \in DOMAIN threads
           THEN [threads EXCEPT
                   ![conversation_id] = Append(@, message.message_id)]
           ELSE [c \in DOMAIN threads \cup {conversation_id} |->
                   IF c = conversation_id THEN <<message.message_id>>
                   ELSE threads[c]]]

\* nested calls of send_message that the interpreter's stack has room for
RecursionLimit == 3

\* where the RecursionError of a call beyond the limit is raised
RaisePoints == {"caller", "callee", "logging"}

\* _broadcast_message from key number i of agent_queues on: one message of
\* its own per registered agent other than the sender, built at time now and
\* handed to send_message. depth is the nesting of the send_message call
\* that runs the loop. A RecursionError ends the loop: it is raised in this
\* frame when the nested call could not be entered.
RECURSIVE send_message_nested(_, _, _, _, _, _)
RECURSIVE broadcast_from(_, _, _, _, _, _, _)
broadcast_from(m, message, i, success_count, now, depth, raise_at) ==
  IF i > Len(m.agent_queues)
  THEN [manager |-> m, success_count |-> success_count, raised |-> FALSE]
  ELSE LET agent_id == m.agent_queues[i].agent_id
       IN IF agent_id = message.sender_id
          THEN broadcast_from(m, message, i + 1, success_count, now, depth,
                              raise_at)
          ELSE LET individual_message ==
                     AgentMessage(uuid4(Len(m.messages) + 1),
                                  message.conversation_id,
                                  message.sender_id, agent_id, None,
                                  message.message_type, message.priority,
                                  now)
                   built == IF agent_id = Broadcast THEN m
                            ELSE [m EXCEPT
                                    !.messages =
                                       Append(@, individual_message)]
                   sent == send_message_nested(built, individual_message,
                                               Len(built.messages), now,
                                               depth + 1, raise_at)
               IN IF sent.raised
                  THEN [manager |-> m, success_count |-> success_count,
                        raised |-> TRUE]
                  ELSE broadcast_from(sent.manager, message, i + 1,
                                      success_count
                                        + (IF sent.value THEN 1 ELSE 0),
                                      now, depth, raise_at)

broadcast_message(m, message, now, depth, raise_at) ==
  LET done == broadcast_from(m, message, 1, 0, now, depth, raise_at)
  IN [manager |-> done.manager, value |-> done.success_count > 0,
      raised |-> done.raised]

\* P2PCommunicationManager.send_message called at nesting depth: ref is the
\* place of the message object among the messages, now the clock during the
\* call. Beyond the recursion limit the call raises RecursionError, either
\* before it is entered (raise_at "caller": the caller sees the exception),
\* or inside its own try block and it returns False: before anything is
\* stored ("callee") or in the logger.info of add_outgoing_message, after
\* the outbox has the message ("logging"). An exception that leaves
\* _broadcast_message is caught by the try block around it.
send_message_nested(m, message, ref, now, depth, raise_at) ==
  IF depth > RecursionLimit
  THEN [manager |->
          IF raise_at = "logging" /\ message.recipient_id # Broadcast
          THEN LET queues == p2p_register_agent(
                               p2p_register_agent(m.agent_queues,
                                                  message.sender_id),
                               message.recipient_id)
               IN [m EXCEPT
                     !.agent_queues =
                        [queues EXCEPT
                           ![QueueOf(queues, message.sender_id)] =
                              add_outgoing_message(@, ref)]]
          ELSE m,
        value |-> FALSE, raised |-> raise_at = "caller"]
  ELSE LET registered == [m EXCEPT
                            !.agent_queues =
                               p2p_register_agent(@, message.sender_id)]
       IN IF message.recipient_id = Broadcast
          THEN LET done == broadcast_message(registered, message, now,
                                             depth, raise_at)
               IN [manager |-> done.manager,
                   value |-> ~done.raised /\ done.value, raised |-> FALSE]
          ELSE [manager |-> send_direct(registered, ref), value |-> TRUE,
                raised |-> FALSE]

\* send_message called by an agent
send_message(m, message, ref, now) ==
  LET sent == send_message_nested(m, message, ref, now, 1, "callee")
  IN [manager |-> sent.manager, value |-> sent.value]

\* mutant: the messages of the thread in the order of the history
get_conversation_history_unsorted(m, conversation_id) ==
  IF conversation_id \notin DOMAIN m.conversation_threads THEN <<>>
  ELSE SelectSeq(m.message_history,
                 LAMBDA ref :
                   Contains(m.conversation_threads[conversation_id],
                            m.messages[ref].message_id))
\* P2PCommunicationManager.get_conversation_history
get_conversation_history(m, conversation_id) ==
  IF conversation_id \notin DOMAIN m.conversation_threads THEN <<>>
  ELSE LET message_ids == m.conversation_threads[conversation_id]
           found == SelectSeq(m.message_history,
                              LAMBDA ref :
                                Contains(message_ids,
                                         m.messages[ref].message_id))
           key == [ref \in 1..Len(m.messages) |->
                     <<0, m.messages[ref].timestamp>>]
       IN SortedBy(found, key)

\* P2PCommunicationManager.get_messages_for_agent
get_messages_for_agent(m, agent_id, message_type) ==
  LET registered == [m EXCEPT
                       !.agent_queues = p2p_register_agent(@, agent_id)]
      queue == registered.agent_queues[QueueOf(registered.agent_queues,
                                               agent_id)]
  IN [manager |-> registered,
      value |-> get_unprocessed_messages(registered, queue, message_type)]

\* P2PCommunicationManager.mark_message_processed
mark_message_processed(m, agent_id, message_id) ==
  IF agent_id \in QueueAgents(m.agent_queues)
  THEN mark_processed(m, QueueOf(m.agent_queues, agent_id), message_id)
  ELSE m

\* the manager after a call and what the call returned
P2PReturn(m, call) ==
  /\ messages' = m.messages
  /\ agent_queues' = m.agent_queues
  /\ message_history' = m.message_history
  /\ conversation_threads' = m.conversation_threads
  /\ p2p_result' = call

\* message ids in use, and the conversation ids a caller may name
MessageIdsInUse == {messages[ref].message_id : ref \in 1..Len(messages)}

\* manager.register_agent(agent_id)
RegisterQueue(agent_id) ==
  P2PReturn([Manager EXCEPT !.agent_queues = p2p_register_agent(@, agent_id)],
            [op |-> "register_agent", agent_id |-> agent_id])

\* manager.send_message(AgentMessage(...)) for a recipient of its own: the
\* message is a new object, with an id of its own unless the caller gives one
SendDirect(message) ==
  /\ message.recipient_id # Broadcast
  /\ Len(message_history) < MaxMessages
  /\ LET built == [Manager EXCEPT !.messages = Append(@, message)]
         sent == send_message(built, message, Len(built.messages),
                              message.timestamp)
     IN P2PReturn(sent.manager,
                  [op |-> "send_message", ref |-> Len(built.messages),
                   value |-> sent.value])

\* manager.send_message(AgentMessage(recipient_id="broadcast", ...)) at time
\* now
SendBroadcast(message, now) ==
  /\ message.recipient_id = Broadcast
  /\ Len(message_history)
       + Cardinality(QueueAgents(agent_queues) \ {message.sender_id})
       <= MaxMessages
  /\ LET sent == send_message(Manager, message, 0, now)
     IN P2PReturn(sent.manager,
                  [op |-> "broadcast", sender_id |-> message.sender_id,
                   value |-> sent.value])

\* manager.send_message(message) with a message object sent before
SendAgain(ref) ==
  /\ Len(message_history) < MaxMessages
  /\ LET sent == send_message(Manager, messages[ref], ref,
                              messages[ref].timestamp)
     IN P2PReturn(sent.manager,
                  [op |-> "send_message", ref |-> ref,
                   value |-> sent.value])

\* manager.send_message(message.create_response(recipient, ...)): the
\* recipient of a delivered message answers it
SendResponse(ref, timestamp) ==
  /\ Len(message_history) < MaxMessages
  /\ LET response == create_response(messages[ref],
                                     uuid4(Len(messages) + 1),
                                     messages[ref].recipient_id, timestamp)
         built == [Manager EXCEPT !.messages = Append(@, response)]
         sent == send_message(built, response, Len(built.messages),
                              timestamp)
     IN P2PReturn(sent.manager,
                  [op |-> "send_response", ref |-> Len(built.messages),
                   reply_to |-> ref, value |-> sent.value])

\* manager.mark_message_processed(agent_id, message_id)
MarkProcessed(agent_id, message_id) ==
  /\ \A i \in 1..Len(agent_queues) :
       agent_queues[i].agent_id = agent_id
         => Len(agent_queues[i].processed_messages) < MaxMarks
  /\ P2PReturn(mark_message_processed(Manager, agent_id, message_id),
               [op |-> "mark_message_processed", agent_id |-> agent_id,
                message_id |-> message_id])

\* manager.get_messages_for_agent(agent_id, message_type)
GetMessages(agent_id, message_type) ==
  LET got == get_messages_for_agent(Manager, agent_id, message_type)
  IN P2PReturn(got.manager,
               [op |-> "get_messages_for_agent", agent_id |-> agent_id,
                message_type |-> message_type, value |-> got.value])

\* manager.get_conversation_history(conversation_id)
GetConversation(conversation_id) ==
  P2PReturn(Manager,
            [op |-> "get_conversation_history",
             conversation_id |-> conversation_id,
             value |-> get_conversation_history(Manager, conversation_id)])

\* the messages a caller builds: the id is the object's own or one in use,
\* the conversation id is absent or explicit
NewMessages(recipients, kinds, message_ids, conversation_ids, timestamps) ==
  {AgentMessage(message_id, conversation_id, "alice", recipient_id, None,
                kind[1], kind[2], timestamp) :
     message_id \in message_ids,
     conversation_id \in conversation_ids,
     recipient_id \in recipients,
     kind \in kinds,
     timestamp \in timestamps}

\* the earliest time a caller may stamp a message with
Earliest == CHOOSE t \in Timestamps : \A u \in Timestamps : t <= u

\* alice to bob, with an id of its own or one in use
DirectMessages ==
  NewMessages({"bob"}, {<<"request", "normal">>},
              {uuid4(Len(messages) + 1)} \cup MessageIdsInUse,
              {None} \cup ConversationIds, Timestamps)

\* alice to everyone; the copies are stamped at the time of the call
BroadcastMessages ==
  NewMessages({Broadcast}, {<<"request", "normal">>},
              {uuid4(Len(messages) + 1)}, {None} \cup ConversationIds,
              {Earliest})

\* alice to bob again and again: ids of their own or in use, one timestamp
MailboxMessages ==
  NewMessages({"bob"}, {<<"request", "normal">>},
              {uuid4(Len(messages) + 1)} \cup MessageIdsInUse,
              {None} \cup ConversationIds, {Earliest})

P2PInit == SupervisorInit /\ WorkflowIdle /\ ExtIdle

\* manager calls with their arguments drawn from the input sets
SendDirectCall == \E message \in DirectMessages : SendDirect(message)

SendMailboxCall == \E message \in MailboxMessages : SendDirect(message)

SendBroadcastCall ==
  \E message \in BroadcastMessages, now \in Timestamps :
    SendBroadcast(message, now)

SendAgainCall == \E ref \in 1..Len(messages) : SendAgain(ref)

SendResponseCall ==
  \E ref \in 1..Len(messages), timestamp \in Timestamps :
    SendResponse(ref, timestamp)

MarkProcessedCall ==
  \E message_id \in MessageIdsInUse : MarkProcessed("bob", message_id)

GetConversationCall ==
  \E conversation_id \in ConversationIds \cup MessageIdsInUse :
    GetConversation(conversation_id)

\* the manager: direct sends, broadcasts, answers and conversation reads
P2PNext ==
  \/ (\E agent_id \in P2PAgents : RegisterQueue(agent_id))
       /\ UNCHANGED <<vars, wf_vars, worker_vars, pool_vars>>
  \/ SendDirectCall /\ UNCHANGED <<vars, wf_vars, worker_vars, pool_vars>>
  \/ SendBroadcastCall /\ UNCHANGED <<vars, wf_vars, worker_vars, pool_vars>>
  \/ SendAgainCall /\ UNCHANGED <<vars, wf_vars, worker_vars, pool_vars>>
  \/ SendResponseCall /\ UNCHANGED <<vars, wf_vars, worker_vars, pool_vars>>
  \/ GetConversationCall /\ UNCHANGED <<vars, wf_vars, worker_vars, pool_vars>>

SpecP2P == P2PInit /\ [][P2PNext]_all_vars

\* one mailbox with redelivery: sends, sends of the same object, answers,
\* marks and reads
MailboxNext ==
  \/ SendMailboxCall /\ UNCHANGED <<vars, wf_vars, worker_vars, pool_vars>>
  \/ SendAgainCall /\ UNCHANGED <<vars, wf_vars, worker_vars, pool_vars>>
  \/ SendResponseCall /\ UNCHANGED <<vars, wf_vars, worker_vars, pool_vars>>
  \/ MarkProcessedCall /\ UNCHANGED <<vars, wf_vars, worker_vars, pool_vars>>
  \/ GetMessages("bob", None) /\ UNCHANGED <<vars, wf_vars, worker_vars, pool_vars>>

SpecMailbox == P2PInit /\ [][MailboxNext]_all_vars

\* messages of every type and priority for one mailbox
InboxMessages ==
  NewMessages({"bob"}, MessageTypes \X MessagePriorities,
              {uuid4(Len(messages) + 1)}, {None}, Timestamps)

GetMessagesCall ==
  \E message_type \in {None} \cup MessageTypes :
    GetMessages("bob", message_type)

\* bob marks a message he has not marked before
MarkUnreadCall ==
  \E message_id \in MessageIdsInUse :
    /\ \A i \in 1..Len(agent_queues) :
         agent_queues[i].agent_id = "bob"
           => ~Contains(agent_queues[i].processed_messages, message_id)
    /\ MarkProcessed("bob", message_id)

\* one mailbox: sends, marks and reads
InboxNext ==
  \/ (\E message \in InboxMessages : SendDirect(message))
       /\ UNCHANGED <<vars, wf_vars, worker_vars, pool_vars>>
  \/ MarkUnreadCall /\ UNCHANGED <<vars, wf_vars, worker_vars, pool_vars>>
  \/ GetMessagesCall /\ UNCHANGED <<vars, wf_vars, worker_vars, pool_vars>>

SpecInbox == P2PInit /\ [][InboxNext]_all_vars

\* agents of a manager on which the id "broadcast" is an agent id as well
BroadcastAgents == {"alice", "bob", Broadcast}

\* manager.send_message(AgentMessage(recipient_id="broadcast", ...)) at time
\* now, whoever is registered; raise_at says where a RecursionError would
\* be raised
SendBroadcastNested(message, now, raise_at) ==
  /\ message.recipient_id = Broadcast
  /\ Len(message_history) < MaxMessages
  /\ LET sent == send_message_nested(Manager, message, 0, now, 1, raise_at)
     IN P2PReturn(sent.manager,
                  [op |-> "broadcast", sender_id |-> message.sender_id,
                   value |-> sent.value])

\* alice to bob, and alice to everyone
PlainMessages(recipient_id) ==
  NewMessages({recipient_id}, {<<"request", "normal">>},
              {uuid4(Len(messages) + 1)}, {None}, {Earliest})

\* a manager with an agent called "broadcast": registrations, direct sends,
\* broadcasts, marks and reads
BroadcastNext ==
  \/ (\E agent_id \in BroadcastAgents : RegisterQueue(agent_id))
       /\ UNCHANGED <<vars, wf_vars, worker_vars, pool_vars>>
  \/ (\E message \in PlainMessages("bob") : SendDirect(message))
       /\ UNCHANGED <<vars, wf_vars, worker_vars, pool_vars>>
  \/ (\E message \in PlainMessages(Broadcast), raise_at \in RaisePoints :
        SendBroadcastNested(message, Earliest, raise_at))
       /\ UNCHANGED <<vars, wf_vars, worker_vars, pool_vars>>
  \/ MarkProcessedCall /\ UNCHANGED <<vars, wf_vars, worker_vars, pool_vars>>
  \/ GetMessages("bob", None) /\ UNCHANGED <<vars, wf_vars, worker_vars, pool_vars>>

SpecBroadcast == P2PInit /\ [][BroadcastNext]_all_vars

\* inbox of an agent, empty while the agent has no queue
InboxOf(queues, agent_id) ==
  IF agent_id \in QueueAgents(queues)
  THEN queues[QueueOf(queues, agent_id)].inbox ELSE <<>>

\* C22: a broadcast sent while N agents other than the sender are registered
\* makes exactly N deliveries, one into the inbox of each of them and none
\* into the sender's; every copy has a message id of its own and all copies
\* are filed under one conversation id, with or without an explicit
\* conversation id on the original.
C22_BroadcastFanOut ==
  [][\A message \in BroadcastMessages, now \in Timestamps :
       SendBroadcast(message, now)
         => LET others == QueueAgents(agent_queues) \ {message.sender_id}
                copies == (Len(messages) + 1)..Len(messages')
            IN /\ Cardinality(copies) = Cardinality(others)
               /\ Len(message_history')
                    = Len(message_history) + Cardinality(others)
               /\ \A agent_id \in others :
                    \E ref \in copies :
                      /\ messages'[ref].recipient_id = agent_id
                      /\ InboxOf(agent_queues', agent_id)
                           = Append(InboxOf(agent_queues, agent_id), ref)
               /\ InboxOf(agent_queues', message.sender_id)
                    = InboxOf(agent_queues, message.sender_id)
               /\ \A ref \in copies :
                    /\ messages'[ref].message_id \notin MessageIdsInUse
                    /\ \A other \in copies \ {ref} :
                         messages'[ref].message_id
                           # messages'[other].message_id
               /\ copies # {}
                    => \E c \in DOMAIN conversation_threads' :
                         \A ref \in copies :
                           Contains(conversation_threads'[c],
                                    messages'[ref].message_id)
    ]_all_vars

\* what does hold: a broadcast that names a conversation files every copy
\* under it
BroadcastWithConversationSharesIt ==
  [][\A message \in BroadcastMessages, now \in Timestamps :
       (SendBroadcast(message, now) /\ message.conversation_id # None)
         => \A ref \in (Len(messages) + 1)..Len(messages') :
              /\ messages'[ref].conversation_id = message.conversation_id
              /\ Contains(conversation_threads'[message.conversation_id],
                          messages'[ref].message_id)
    ]_all_vars

\* the call mark_message_processed(agent_id, message_id) as p2p_result
\* records it
MarkCall(agent_id, message_id) ==
  [op |-> "mark_message_processed", agent_id |-> agent_id,
   message_id |-> message_id]

\* number of times x occurs in seq
Occurrences(seq, x) == Cardinality({i \in 1..Len(seq) : seq[i] = x})

\* C23: mark_processed is idempotent: the same mark made a second time
\* leaves the mailbox as the first mark left it, and a message id occurs at
\* most once among the processed ids.
C23_MarkProcessedIsIdempotent ==
  /\ [][\A message_id \in MessageIdsInUse :
          (/\ p2p_result = MarkCall("bob", message_id)
           /\ MarkProcessed("bob", message_id))
            => UNCHANGED <<messages, agent_queues>>
       ]_all_vars
  /\ [](\A q \in 1..Len(agent_queues) :
          \A message_id \in MessageIdsInUse :
            Occurrences(agent_queues[q].processed_messages, message_id) <= 1)

\* what does hold: marking again changes nothing but the processed ids, the
\* message stays processed and out of the unprocessed view
SecondMarkOnlyRepeatsTheId ==
  [][\A message_id \in MessageIdsInUse :
       (/\ p2p_result = MarkCall("bob", message_id)
        /\ MarkProcessed("bob", message_id))
         => /\ messages' = messages
            /\ \A q \in 1..Len(agent_queues) :
                 /\ agent_queues'[q].inbox = agent_queues[q].inbox
                 /\ agent_queues'[q].outbox = agent_queues[q].outbox
    ]_all_vars

\* what inbox(agent) returns for queue number q, as message ids
UnprocessedIds(q) ==
  LET read == get_unprocessed_messages(Manager, agent_queues[q], None)
  IN {messages[read[i]].message_id : i \in 1..Len(read)}

\* C24: once mark_processed(agent, id) has been applied to a delivered
\* message, no read of the agent's inbox returns a message with that id,
\* whatever was sent, read or marked before or after, a second send of the
\* same id included.
C24_ProcessedIdNeverReadAgain ==
  \A q \in 1..Len(agent_queues) :
    \A i \in 1..Len(agent_queues[q].processed_messages) :
      agent_queues[q].processed_messages[i] \notin UnprocessedIds(q)

\* what does hold: a message sent after its id was marked is not put in
\* the inbox
SendAfterMarkIsDropped ==
  [][\A message \in DirectMessages :
       (/\ SendDirect(message)
        /\ message.recipient_id \in QueueAgents(agent_queues)
        /\ Contains(agent_queues[QueueOf(agent_queues, message.recipient_id)]
                      .processed_messages, message.message_id))
         => InboxOf(agent_queues', message.recipient_id)
              = InboxOf(agent_queues, message.recipient_id)
    ]_all_vars

\* urgent > high > normal > low
PriorityRanking == <<"urgent", "high", "normal", "low">>

\* message a is not to be read after message b
ReadBefore(a, b) ==
  LET rank(message) == CHOOSE i \in 1..Len(PriorityRanking) :
                         PriorityRanking[i] = message.priority
  IN \/ rank(a) < rank(b)
     \/ rank(a) = rank(b) /\ a.timestamp <= b.timestamp

\* the inbox messages of an agent no mark was applied to, of one type if a
\* type is given
UnprocessedOfType(agent_id, message_type) ==
  LET queue == agent_queues[QueueOf(agent_queues, agent_id)]
  IN IF agent_id \notin QueueAgents(agent_queues) THEN {}
     ELSE {queue.inbox[i] : i \in
             {j \in 1..Len(queue.inbox) :
                /\ ~Contains(queue.processed_messages,
                             messages[queue.inbox[j]].message_id)
                /\ message_type \in {None,
                                     messages[queue.inbox[j]].message_type}}}

\* C25: inbox(agent) returns exactly the unprocessed inbox messages of the
\* agent, of the given type only if a type is given, urgent before high
\* before normal before low and by ascending timestamp within a priority;
\* the read removes no message and marks none, and the same read made again
\* returns the same list.
C25_InboxReadIsOrderedAndNonDestructive ==
  [][\A message_type \in {None} \cup MessageTypes :
       (/\ p2p_result'.op = "get_messages_for_agent"
        /\ GetMessages("bob", message_type))
         => LET value == p2p_result'.value
            IN /\ {value[i] : i \in 1..Len(value)}
                    = UnprocessedOfType("bob", message_type)
               /\ Len(value)
                    = Cardinality(UnprocessedOfType("bob", message_type))
               /\ \A i, j \in 1..Len(value) :
                    i < j => ReadBefore(messages[value[i]],
                                        messages[value[j]])
               /\ messages' = messages
               /\ \A q \in 1..Len(agent_queues) :
                    agent_queues'[q] = agent_queues[q]
               /\ (/\ p2p_result.op = "get_messages_for_agent"
                   /\ p2p_result.agent_id = "bob"
                   /\ p2p_result.message_type = message_type)
                    => value = p2p_result.value
    ]_all_vars

\* a read returned two messages in the other order than they arrived in
C25_Witness ==
  /\ p2p_result.op = "get_messages_for_agent"
  /\ p2p_result.value = <<2, 1>>
  /\ agent_queues[QueueOf(agent_queues, "bob")].inbox = <<1, 2>>
  /\ messages[1].priority = "normal"
  /\ messages[2].priority = "high"
  /\ messages[1].timestamp < messages[2].timestamp

\* a send to a recipient of its own: a new message, one sent before, or an
\* answer
DirectSend ==
  /\ p2p_result'.op \in {"send_message", "send_response"}
  /\ SendDirectCall \/ SendMailboxCall \/ SendAgainCall \/ SendResponseCall

OutboxOf(queues, agent_id) ==
  IF agent_id \in QueueAgents(queues)
  THEN queues[QueueOf(queues, agent_id)].outbox ELSE <<>>

ProcessedOf(queues, agent_id) ==
  IF agent_id \in QueueAgents(queues)
  THEN queues[QueueOf(queues, agent_id)].processed_messages ELSE <<>>

ThreadOf(threads, conversation_id) ==
  IF conversation_id \in DOMAIN threads THEN threads[conversation_id]
  ELSE <<>>

\* what a direct send of the message at ref does to everything but the
\* recipient's inbox
DirectSendFiles(ref) ==
  LET message == messages'[ref]
      conversation_id == IF message.conversation_id = None
                         THEN message.message_id
                         ELSE message.conversation_id
  IN /\ QueueAgents(agent_queues')
          = QueueAgents(agent_queues)
              \cup {message.sender_id, message.recipient_id}
     /\ OutboxOf(agent_queues', message.sender_id)
          = Append(OutboxOf(agent_queues, message.sender_id), ref)
     /\ message_history' = Append(message_history, ref)
     /\ DOMAIN conversation_threads'
          = DOMAIN conversation_threads \cup {conversation_id}
     /\ conversation_threads'[conversation_id]
          = Append(ThreadOf(conversation_threads, conversation_id),
                   message.message_id)
     /\ \A c \in DOMAIN conversation_threads \ {conversation_id} :
          conversation_threads'[c] = conversation_threads[c]
     /\ p2p_result'.value = TRUE

\* C26 as stated: a direct send registers sender and recipient if they are
\* unknown, appends the message once to the sender's outbox, the recipient's
\* inbox, the message history and the thread of its conversation id (its
\* own id when it has none), and returns true.
C26_DirectSendAppendsEverywhere ==
  [][DirectSend
       => LET ref == p2p_result'.ref
              message == messages'[ref]
          IN /\ DirectSendFiles(ref)
             /\ InboxOf(agent_queues', message.recipient_id)
                  = Append(InboxOf(agent_queues, message.recipient_id), ref)
    ]_all_vars

\* C26 amended: the same, except that the recipient's inbox is left as it
\* is when the recipient has marked a message with this id as processed.
C26_DirectSendSkipsProcessedIds ==
  [][DirectSend
       => LET ref == p2p_result'.ref
              message == messages'[ref]
          IN /\ DirectSendFiles(ref)
             /\ InboxOf(agent_queues', message.recipient_id)
                  = IF Contains(ProcessedOf(agent_queues,
                                            message.recipient_id),
                                message.message_id)
                    THEN InboxOf(agent_queues, message.recipient_id)
                    ELSE Append(InboxOf(agent_queues, message.recipient_id),
                                ref)
    ]_all_vars

\* a second message with an id bob had marked was sent: filed everywhere
\* but in bob's inbox
C26_Witness ==
  /\ p2p_result.op = "send_message"
  /\ p2p_result.ref = 2
  /\ p2p_result.value = TRUE
  /\ messages[2].message_id = messages[1].message_id
  /\ messages[2].conversation_id = "thread"
  /\ InboxOf(agent_queues, "bob") = <<1>>
  /\ ProcessedOf(agent_queues, "bob") = <<messages[1].message_id>>
  /\ OutboxOf(agent_queues, "alice") = <<1, 2>>
  /\ message_history = <<1, 2>>
  /\ conversation_threads["thread"] = <<messages[2].message_id>>

\* the explicit conversation id of a message or, when it has none, its own
\* message id
KeyOf(message) ==
  IF message.conversation_id = None THEN message.message_id
  ELSE message.conversation_id

\* the deliveries in conversation c: positions of message_history
DeliveredIn(c) ==
  {i \in 1..Len(message_history) : KeyOf(messages[message_history[i]]) = c}

\* value lists the deliveries of c, each once, by ascending timestamp
IsConversation(value, c) ==
  /\ Len(value) = Cardinality(DeliveredIn(c))
  /\ \A ref \in 1..Len(messages) :
       Occurrences(value, ref)
         = Cardinality({i \in DeliveredIn(c) : message_history[i] = ref})
  /\ \A i, j \in 1..Len(value) :
       i < j => messages[value[i]].timestamp <= messages[value[j]].timestamp

\* an answer built with create_response and sent is in the conversation of
\* the message it answers
AnswerJoinsConversation ==
  (p2p_result'.op = "send_response" /\ SendResponseCall)
    => LET answer == p2p_result'.ref
           asked == p2p_result'.reply_to
           c == KeyOf(messages'[asked])
           after == [messages |-> messages', agent_queues |-> agent_queues',
                     message_history |-> message_history',
                     conversation_threads |-> conversation_threads']
           thread == get_conversation_history(after, c)
       IN /\ KeyOf(messages'[answer]) = c
          /\ Contains(thread, answer)
          /\ Contains(message_history, asked) => Contains(thread, asked)

\* C27 as stated: conversation(c) returns, by ascending timestamp, exactly
\* the delivered messages whose thread key is c, the thread key being the
\* explicit conversation id or else the message's own id; so an answer
\* built with create_response and sent is in the conversation of the
\* message it answers.
C27_ConversationIsTheThread ==
  [][/\ \A c \in ConversationIds \cup MessageIdsInUse :
          (p2p_result'.op = "get_conversation_history" /\ GetConversation(c))
            => IsConversation(p2p_result'.value, c)
     /\ AnswerJoinsConversation
    ]_all_vars

\* no two delivered messages of different conversations have one message id
IdsNameOneConversation ==
  \A i, j \in 1..Len(message_history) :
    messages[message_history[i]].message_id
      = messages[message_history[j]].message_id
        => KeyOf(messages[message_history[i]])
             = KeyOf(messages[message_history[j]])

\* C27 amended: the same, as long as no message id is shared by delivered
\* messages of different conversations.
C27_ConversationOfUniqueIds ==
  [][/\ \A c \in ConversationIds \cup MessageIdsInUse :
          (/\ p2p_result'.op = "get_conversation_history"
           /\ GetConversation(c) /\ IdsNameOneConversation)
            => IsConversation(p2p_result'.value, c)
     /\ AnswerJoinsConversation
    ]_all_vars

\* the conversation of a message without a conversation id was read after
\* bob answered it with an earlier timestamp: the answer comes first
C27_Witness ==
  /\ p2p_result.op = "get_conversation_history"
  /\ p2p_result.conversation_id = "m1"
  /\ p2p_result.value = <<2, 1>>
  /\ message_history = <<1, 2>>
  /\ messages[1].conversation_id = None
  /\ messages[2].reply_to = "m1"
  /\ messages[2].sender_id = "bob"
  /\ messages[2].timestamp < messages[1].timestamp

\* the lengths of the first n sequences of a sequence of sequences, added
RECURSIVE TotalLen(_, _)
TotalLen(seqs, n) == IF n = 0 THEN 0 ELSE Len(seqs[n]) + TotalLen(seqs, n - 1)

\* the lengths of the threads of a set of conversation ids, added
RECURSIVE ThreadsLen(_, _)
ThreadsLen(threads, ids) ==
  IF ids = {} THEN 0
  ELSE LET c == CHOOSE c \in ids : TRUE
       IN Len(threads[c]) + ThreadsLen(threads, ids \ {c})

\* the history is as long as the outboxes together and as the threads
\* together, and holds every message of every inbox
HistoryAccounts ==
  /\ Len(message_history)
       = TotalLen([q \in 1..Len(agent_queues) |-> agent_queues[q].outbox],
                  Len(agent_queues))
  /\ Len(message_history)
       = ThreadsLen(conversation_threads, DOMAIN conversation_threads)
  /\ \A q \in 1..Len(agent_queues) :
       \A i \in 1..Len(agent_queues[q].inbox) :
         Contains(message_history, agent_queues[q].inbox[i])

\* C39: after any sequence of register, send (direct or broadcast), inbox
\* and mark_processed calls the message history has only grown, its length
\* is the sum of the lengths of all outboxes and the sum of the lengths of
\* all conversation threads, and every message in an inbox is in the
\* history.
C39_HistoryAccountsForEveryMessage ==
  /\ [][/\ Len(message_history') >= Len(message_history)
        /\ SubSeq(message_history', 1, Len(message_history))
             = message_history
       ]_all_vars
  /\ []HistoryAccounts

\* while no agent is called "broadcast" the history accounts for every
\* outbox, thread and inbox
HistoryAccountsWithoutNamesake ==
  [](Broadcast \notin QueueAgents(agent_queues) => HistoryAccounts)

\* C40: a broadcast send returns, and it puts at most one message into the
\* inbox of each registered agent, whatever the registered agent ids are,
\* "broadcast" included.
C40_BroadcastDeliversOnce ==
  [][\A message \in PlainMessages(Broadcast), raise_at \in RaisePoints :
       (/\ p2p_result'.op = "broadcast"
        /\ SendBroadcastNested(message, Earliest, raise_at))
         => \A agent_id \in QueueAgents(agent_queues') :
              Len(InboxOf(agent_queues', agent_id))
                <= Len(InboxOf(agent_queues, agent_id)) + 1
    ]_all_vars

\* without an agent called "broadcast" every other registered agent gets
\* exactly one message from a broadcast and the sender none
BroadcastWithoutNamesakeDeliversOnce ==
  [][\A message \in PlainMessages(Broadcast), raise_at \in RaisePoints :
       (/\ p2p_result'.op = "broadcast"
        /\ SendBroadcastNested(message, Earliest, raise_at)
        /\ Broadcast \notin QueueAgents(agent_queues))
         => \A agent_id \in QueueAgents(agent_queues') :
              Len(InboxOf(agent_queues', agent_id))
                = Len(InboxOf(agent_queues, agent_id))
                    + (IF agent_id = message.sender_id THEN 0 ELSE 1)
    ]_all_vars

(***************************************************************************)
(* BaseWorkerAgent (src/src/agents/base_agent.py)                          *)
(***************************************************************************)
\* number of complete_task calls on one worker
MaxCompletions == 2

\* AgentState.update_performance(execution_time, success)
update_worker_performance(agent, success) ==
  IF success THEN [agent EXCEPT !.tasks_completed = @ + 1]
  ELSE [agent EXCEPT !.tasks_failed = @ + 1]

\* BaseWorkerAgent.can_handle_task
can_handle_task(agent, required_capabilities) ==
  IF required_capabilities = {} THEN TRUE
  ELSE \E cap \in required_capabilities : cap \in agent.capabilities

\* BaseWorkerAgent.start_task
start_task(agent, task_id) ==
  [agent EXCEPT !.status = "busy", !.current_task_id = task_id]

\* BaseWorkerAgent.complete_task
complete_task(agent, success) ==
  update_worker_performance([agent EXCEPT !.status = "available",
                                          !.current_task_id = NoTask],
                            success)

\* BaseWorkerAgent.set_error
set_error(agent) ==
  [agent EXCEPT !.status = "error", !.error_message = TRUE,
                !.health_check_passed = FALSE]

\* BaseWorkerAgent.reset_error
reset_error(agent) ==
  [agent EXCEPT !.status = "available", !.error_message = FALSE,
                !.health_check_passed = TRUE]

\* worker.can_handle_task(task)
CanHandleTask(required_capabilities) ==
  /\ worker_result' = [op |-> "can_handle_task",
                       required_capabilities |-> required_capabilities,
                       value |-> can_handle_task(agent_state,
                                                 required_capabilities)]
  /\ UNCHANGED agent_state

\* worker.start_task(task)
StartTask(task_id) ==
  /\ agent_state' = start_task(agent_state, task_id)
  /\ worker_result' = [op |-> "start_task", task_id |-> task_id]

\* worker.complete_task(task, execution_time, success)
CompleteTask(task_id, success) ==
  /\ agent_state.tasks_completed + agent_state.tasks_failed < MaxCompletions
  /\ agent_state' = complete_task(agent_state, success)
  /\ worker_result' = [op |-> "complete_task", task_id |-> task_id]

\* worker.set_error(error_message)
SetError ==
  /\ agent_state' = set_error(agent_state)
  /\ worker_result' = [op |-> "set_error"]

\* worker.reset_error()
ResetError ==
  /\ agent_state' = reset_error(agent_state)
  /\ worker_result' = [op |-> "reset_error"]

\* a worker of any capability set, available and without a task
WorkerInit ==
  /\ SupervisorInit
  /\ WorkflowIdle
  /\ P2PManagerInit
  /\ PoolInit
  /\ \E capabilities \in SUBSET Capabilities :
       agent_state = WorkerAgentState(capabilities)
  /\ worker_result = [op |-> "init"]

WorkerNext ==
  \/ (\E required_capabilities \in SUBSET Capabilities :
        CanHandleTask(required_capabilities))
       /\ UNCHANGED <<vars, wf_vars, p2p_vars, pool_vars>>
  \/ (\E task_id \in TaskIds : StartTask(task_id))
       /\ UNCHANGED <<vars, wf_vars, p2p_vars, pool_vars>>
  \/ (\E task_id \in TaskIds, success \in BOOLEAN :
        CompleteTask(task_id, success))
       /\ UNCHANGED <<vars, wf_vars, p2p_vars, pool_vars>>
  \/ SetError /\ UNCHANGED <<vars, wf_vars, p2p_vars, pool_vars>>
  \/ ResetError /\ UNCHANGED <<vars, wf_vars, p2p_vars, pool_vars>>

SpecWorker == WorkerInit /\ [][WorkerNext]_all_vars

\* C28: the default can_handle_task of a worker returns true exactly when
\* the capabilities the task requires are a subset of the worker's (always
\* for a task that requires none), as the scheduler's matching test does.
C28_CanHandleIsSubsetTest ==
  [][\A required_capabilities \in SUBSET Capabilities :
       CanHandleTask(required_capabilities)
         => /\ worker_result'.value
                 = (required_capabilities \subseteq agent_state.capabilities)
            /\ worker_result'.value
                 = agent_has_required_capabilities(agent_state,
                                                   required_capabilities)
    ]_all_vars

\* what does hold: the worker accepts a task as soon as it has one of the
\* capabilities the task requires
CanHandleIsOverlapTest ==
  [][\A required_capabilities \in SUBSET Capabilities :
       CanHandleTask(required_capabilities)
         => worker_result'.value
              = \/ required_capabilities = {}
                \/ required_capabilities \cap agent_state.capabilities # {}
    ]_all_vars

\* C29: whatever sequence of start_task, complete_task, set_error and
\* reset_error is applied to a worker that starts available without a task,
\* the worker is busy if and only if its current_task_id is set.
C29_BusyIffTaskSet ==
  (agent_state.status = "busy") <=> (agent_state.current_task_id # NoTask)

\* what does hold: a busy worker has a task
BusyWorkerHasTask ==
  agent_state.status = "busy" => agent_state.current_task_id # NoTask

(***************************************************************************)
(* ConcurrentWorkerAdapter and ConcurrentExecutionPool                     *)
(* (src/src/agents/concurrent_worker_adapter.py)                           *)
(***************************************************************************)
\* the context dicts a caller gives the pool: None, empty, or with an entry
PoolContexts ==
  {[given |-> FALSE, entries |-> {}], [given |-> TRUE, entries |-> {}],
   [given |-> TRUE, entries |-> {"run"}]}

\* subtask_data["context"] of a subtask: absent or one entry of its own
OwnEntry(subtask) == <<"k1", "k2">>[subtask]

SubtaskContexts ==
  {contexts \in [Subtasks -> SUBSET {"k1", "k2"}] :
     \A subtask \in Subtasks : contexts[subtask] \subseteq {OwnEntry(subtask)}}

\* `context or {}`: the given dict itself unless it is None or empty
ContextIsShared == pool_context.given /\ pool_context.entries # {}

\* the thread runs a call of execute_subtask
Busy(thread) ==
  \E subtask \in Subtasks :
    /\ pool_subtasks[subtask].thread = thread
    /\ pool_subtasks[subtask].pc \in {"prepare", "start", "execute", "finish"}

\* pool.execute_subtasks_concurrently(subtasks, context): every subtask is
\* submitted to the executor
execute_subtasks_concurrently(given, contexts) ==
  /\ \A subtask \in Subtasks : pool_subtasks[subtask].pc = "idle"
  /\ pool_context' = given
  /\ pool_subtasks' = [subtask \in Subtasks |->
                         [NoCall EXCEPT !.pc = "queued",
                                        !.context = contexts[subtask]]]
  /\ UNCHANGED <<pool_agents, thread_local, pool_results>>

\* an idle thread of the executor takes the oldest work item
RunOnThread(subtask, thread) ==
  /\ pool_subtasks[subtask].pc = "queued"
  /\ \A earlier \in Subtasks :
       earlier < subtask => pool_subtasks[earlier].pc # "queued"
  /\ ~Busy(thread)
  /\ pool_subtasks' = [pool_subtasks EXCEPT ![subtask].pc = "prepare",
                                            ![subtask].thread = thread]
  /\ UNCHANGED <<pool_context, pool_agents, thread_local, pool_results>>

\* _get_thread_local_agent: the instance of the thread, made on first use
get_thread_local_agent(thread) ==
  IF thread_local[thread] # 0
  THEN [agents |-> pool_agents, locals |-> thread_local,
        agent |-> thread_local[thread]]
  ELSE [agents |-> Append(pool_agents, WorkerAgentState({"analysis"})),
        locals |-> [thread_local EXCEPT ![thread] = Len(pool_agents) + 1],
        agent |-> Len(pool_agents) + 1]

\* execute_subtask up to the update of the execution context
PrepareContext(subtask) ==
  /\ pool_subtasks[subtask].pc = "prepare"
  /\ LET got == get_thread_local_agent(pool_subtasks[subtask].thread)
     IN /\ pool_agents' = got.agents
        /\ thread_local' = got.locals
        /\ pool_subtasks' =
             [pool_subtasks EXCEPT
                ![subtask].pc = "start",
                ![subtask].agent = got.agent,
                ![subtask].shared = ContextIsShared,
                ![subtask].execution_context =
                   IF ContextIsShared THEN {}
                   ELSE pool_subtasks[subtask].context]
  /\ pool_context' =
       IF ContextIsShared
       THEN [pool_context EXCEPT
               !.entries = @ \cup pool_subtasks[subtask].context]
       ELSE pool_context
  /\ UNCHANGED pool_results

\* agent_instance.start_task(task) under the execution lock
StartSubtask(subtask) ==
  /\ pool_subtasks[subtask].pc = "start"
  /\ pool_agents' = [pool_agents EXCEPT
                       ![pool_subtasks[subtask].agent] =
                          start_task(@, subtask)]
  /\ pool_subtasks' = [pool_subtasks EXCEPT ![subtask].pc = "execute"]
  /\ UNCHANGED <<pool_context, thread_local, pool_results>>

\* agent_instance.execute(task, execution_context): what the agent finds in
\* the context, and whether it raises
ExecuteSubtask(subtask, raises) ==
  /\ pool_subtasks[subtask].pc = "execute"
  /\ pool_subtasks' =
       [pool_subtasks EXCEPT
          ![subtask].pc = "finish",
          ![subtask].raised = raises,
          ![subtask].seen =
             IF pool_subtasks[subtask].shared THEN pool_context.entries
             ELSE pool_subtasks[subtask].execution_context]
  /\ UNCHANGED <<pool_context, pool_agents, thread_local, pool_results>>

\* complete_task, and set_error after a failure, under the execution lock;
\* the formatted result
FinishSubtask(subtask) ==
  /\ pool_subtasks[subtask].pc = "finish"
  /\ LET agent == pool_subtasks[subtask].agent
         raised == pool_subtasks[subtask].raised
         completed == complete_task(pool_agents[agent], ~raised)
     IN /\ pool_agents' = [pool_agents EXCEPT
                             ![agent] = IF raised THEN set_error(completed)
                                        ELSE completed]
        /\ pool_results' =
             Append(pool_results,
                    [subtask_id |-> subtask,
                     status |-> IF raised THEN "failed" ELSE "completed",
                     agent |-> agent,
                     thread_id |-> pool_subtasks[subtask].thread])
  /\ pool_subtasks' = [pool_subtasks EXCEPT ![subtask].pc = "done"]
  /\ UNCHANGED <<pool_context, thread_local>>

PoolNext ==
  \/ (\E given \in PoolContexts, contexts \in SubtaskContexts :
        execute_subtasks_concurrently(given, contexts))
       /\ UNCHANGED <<vars, wf_vars, p2p_vars, worker_vars>>
  \/ (\E subtask \in Subtasks, thread \in Threads :
        RunOnThread(subtask, thread))
       /\ UNCHANGED <<vars, wf_vars, p2p_vars, worker_vars>>
  \/ (\E subtask \in Subtasks : PrepareContext(subtask))
       /\ UNCHANGED <<vars, wf_vars, p2p_vars, worker_vars>>
  \/ (\E subtask \in Subtasks : StartSubtask(subtask))
       /\ UNCHANGED <<vars, wf_vars, p2p_vars, worker_vars>>
  \/ (\E subtask \in Subtasks, raises \in BOOLEAN :
        ExecuteSubtask(subtask, raises))
       /\ UNCHANGED <<vars, wf_vars, p2p_vars, worker_vars>>
  \/ (\E subtask \in Subtasks : FinishSubtask(subtask))
       /\ UNCHANGED <<vars, wf_vars, p2p_vars, worker_vars>>

PoolIdle == SupervisorInit /\ WorkflowIdle /\ ExtIdle

SpecPool == PoolIdle /\ [][PoolNext]_all_vars

\* the calls of execute_subtask that are under way
Running(subtask) ==
  pool_subtasks[subtask].pc \in {"start", "execute", "finish"}

\* two calls that are under way work on different worker instances
WorkerInstancesArePrivate ==
  \A one, other \in Subtasks :
    (one # other /\ Running(one) /\ Running(other))
      => pool_subtasks[one].agent # pool_subtasks[other].agent

\* C30: subtasks that run concurrently through the pool share no mutable
\* per-call state: each call works on a worker instance private to its
\* thread, and the execution context a subtask sees holds no entry that
\* another subtask contributed.
C30_NoSharedPerCallState ==
  /\ WorkerInstancesArePrivate
  /\ \A one, other \in Subtasks :
       one # other
         => pool_subtasks[one].seen \cap pool_subtasks[other].context = {}
====
